---- MODULE Spec2Model ----
(***************************************************************************)
(* The per-room chat coordinator (class ChatRoom, a Durable Object using   *)
(* the WebSocket hibernation API): its session registry, message history,  *)
(* transport attachments, the handlers of the transport events and the     *)
(* constructor that rebuilds the registry after an eviction.               *)
(*                                                                         *)
(* Strings are sequences of one-character strings, so that trim() is a     *)
(* computation.  crypto.randomUUID() is a counter (nextId): every value it *)
(* returns is fresh.  Date.now() is the variable clock: a handler reads it *)
(* once, and each transport event is handled one instant after the one     *)
(* before.  A throwing ws.send() is an input of each handler.              *)
(***************************************************************************)
EXTENDS Integers, Sequences, FiniteSets, TLC

VARIABLES
    sessions,        \* Map<WebSocket, ChatUser>: a function on the joined handles
    messageHistory,  \* Message[]
    attachment,      \* what serializeAttachment stored on each transport
    status,          \* transport of each handle: "none", "open", "closed", "gone"
    nextId,          \* the next value of crypto.randomUUID()
    clock,           \* Date.now()
    delivered,       \* per handle, what ws.send() handed over in the last event
    inbox,           \* per handle, the ids of the room events handed over so far
                     \* (kept by the specification of delivery order only)
    peer,            \* the fields of the ChatRoom instance of a second room
    room,            \* per handle, the room id its upgrade request was routed by
                     \* (both kept by the specification of two rooms only)
    rate,            \* the calls of checkRateLimit made so far, with their results
                     \* (kept by the specification of the rate-limit wrapper only)
    chatState,       \* per chat page, its chatState: socket, isConnected, isJoined
    inflight,        \* per handle, the frames and the close event on their way
                     \* from the page to the coordinator
                     \* (both kept by the specification of the chat page only)
    calls,           \* the invocations of loadTest and queryTest
                     \* (kept by the specification of the remote functions only)
    ev               \* the last transport event and what its handler observed

vars == <<sessions, messageHistory, attachment, status, nextId, clock, delivered,
          inbox, peer, room, rate, chatState, inflight, calls, ev>>

-----------------------------------------------------------------------------
(* Bounds of the model *)

MaxHandles == 3
MaxEvents == 5
MaxFailAt == 3
LongMaxEvents == 53
OrderMaxEvents == 5
ScenarioMaxEvents == 8
RoomsMaxEvents == 4
RateMaxCalls == 2
PayloadMaxEvents == 5
NamesMaxEvents == 5
PageMaxEvents == 6
RemoteMaxCalls == 2

(* Program constants *)

MAX_HISTORY == 50
REPLAY_COUNT == 10
NORMAL_CLOSURE == 1000
MAX_USERNAME_LENGTH == 30
RECURS == 1
LOAD_FAILURE_BELOW == 33
NETWORK_ERROR_BELOW == 66

Handles == 1..MaxHandles

-----------------------------------------------------------------------------
(* Strings and JSON values *)

IsSpace(c) == c = " "

RECURSIVE TrimStart(_)
TrimStart(s) ==
    IF s # <<>> /\ IsSpace(Head(s)) THEN TrimStart(Tail(s)) ELSE s

RECURSIVE TrimEnd(_)
TrimEnd(s) ==
    IF s # <<>> /\ IsSpace(s[Len(s)]) THEN TrimEnd(SubSeq(s, 1, Len(s) - 1)) ELSE s

\* faulty variant: only the leading whitespace is removed
Trim_StartOnly(s) == TrimStart(s)
\* faulty variant: only the trailing whitespace is removed
Trim_EndOnly(s) == TrimEnd(s)

Trim(s) == TrimEnd(TrimStart(s))

JsString(s) == [t |-> "string", s |-> s]
JsUndefined == [t |-> "undefined", s |-> <<>>]
JsNumber == [t |-> "number", s |-> <<>>]

\* !v of JavaScript, for the values above (the number stands for a non-zero one)
Falsy(v) == v.t = "undefined" \/ (v.t = "string" /\ v.s = <<>>)

-----------------------------------------------------------------------------
(* Maps *)

MapSet(m, k, v) == [x \in (DOMAIN m) \cup {k} |-> IF x = k THEN v ELSE m[x]]
MapDelete(m, k) == [x \in (DOMAIN m) \ {k} |-> m[x]]
EmptyMap == [x \in {} |-> 0]

\* faulty variant: one entry more than asked for
SliceLast_OneMore(s, n) == IF Len(s) <= n + 1 THEN s ELSE SubSeq(s, Len(s) - n, Len(s))
\* faulty variant: the first n entries instead of the last n
SliceLast_First(s, n) == IF Len(s) <= n THEN s ELSE SubSeq(s, 1, n)

\* Array.prototype.slice(-n), n > 0
SliceLast(s, n) == IF Len(s) <= n THEN s ELSE SubSeq(s, Len(s) - n + 1, Len(s))

-----------------------------------------------------------------------------
(* Messages *)

ChatMessage(id, content, username, timestamp) ==
    [id |-> id, content |-> content, username |-> username,
     timestamp |-> timestamp, type |-> "message"]

UserJoinedMessage(id, username, timestamp) ==
    [id |-> id, username |-> username, timestamp |-> timestamp, type |-> "user_joined"]

UserLeftMessage(id, username, timestamp) ==
    [id |-> id, username |-> username, timestamp |-> timestamp, type |-> "user_left"]

ServerMessage(id, content, timestamp) ==
    [id |-> id, content |-> content, timestamp |-> timestamp, type |-> "server"]

ChatUser(username, connectionId, joinedAt) ==
    [username |-> username, connectionId |-> connectionId, joinedAt |-> joinedAt]

\* the raw text the keep-alive answer sends
Pong == [type |-> "pong"]

-----------------------------------------------------------------------------
(* The state a handler works on.  A handler is a function from this record  *)
(* to this record; the action that runs it commits the result.             *)
(*   failed    the handles for which sendToWebSocket caught a throwing send *)
(*   attempts  per handle, the number of ws.send() calls made so far        *)
(*   bcast     the message given to broadcastMessage, if it was called      *)
(*   targets   the connections broadcastMessage iterated over               *)
(*   outcome   the branch of the handler that ran                           *)
(*   thrown    an exception is propagating                                  *)
(*   closeCode the code given to ws.close(), 0 if it was not called         *)

Begin ==
    [sessions |-> sessions, messageHistory |-> messageHistory,
     attachment |-> attachment, status |-> status, nextId |-> nextId,
     delivered |-> [h \in Handles |-> <<>>], failed |-> {},
     attempts |-> [h \in Handles |-> 0], bcast |-> <<>>, targets |-> {},
     outcome |-> "", thrown |-> FALSE, closeCode |-> 0]

\* A failure input F gives each handle the number of the first ws.send() to it
\* that throws in this event (0: none throws); later sends to it throw as well.
Throws(F, ws, k) == F[ws] # 0 /\ k >= F[ws]

Outcome(st, what) == [st EXCEPT !.outcome = what]

\* faulty variant: a throwing raw send also drops the session of its target
RawSend_DropsSession(st, ws, text, F) ==
    LET k == st.attempts[ws] + 1 IN
    IF Throws(F, ws, k)
    THEN [st EXCEPT !.attempts[ws] = k, !.thrown = TRUE, !.sessions = MapDelete(@, ws)]
    ELSE [st EXCEPT !.attempts[ws] = k, !.delivered[ws] = Append(@, text)]
\* ws.send(text) outside any try block: a throw propagates to the caller
RawSend(st, ws, text, F) ==
    LET k == st.attempts[ws] + 1 IN
    IF Throws(F, ws, k)
    THEN [st EXCEPT !.attempts[ws] = k, !.thrown = TRUE]
    ELSE [st EXCEPT !.attempts[ws] = k, !.delivered[ws] = Append(@, text)]

\* faulty variant: the error of a throwing send is passed on to the caller
sendToWebSocket_Rethrow(st, ws, message, F) ==
    LET k == st.attempts[ws] + 1 IN
    IF Throws(F, ws, k)
    THEN [st EXCEPT !.attempts[ws] = k, !.failed = @ \cup {ws}, !.thrown = TRUE]
    ELSE [st EXCEPT !.attempts[ws] = k, !.delivered[ws] = Append(@, message)]
sendToWebSocket(st, ws, message, F) ==
    LET k == st.attempts[ws] + 1 IN
    IF Throws(F, ws, k)
    THEN [st EXCEPT !.attempts[ws] = k,
                    !.failed = @ \cup {ws},
                    !.sessions = MapDelete(@, ws)]
    ELSE [st EXCEPT !.attempts[ws] = k, !.delivered[ws] = Append(@, message)]

\* faulty variant: the error also goes to another joined connection
sendError_AlsoToAnother(st, ws, errorMessage, F) ==
    LET message == ServerMessage(st.nextId, <<"Error: ", errorMessage>>, clock)
        sent == sendToWebSocket([st EXCEPT !.nextId = @ + 1], ws, message, F)
        others == DOMAIN st.sessions \ {ws}
    IN  IF others = {} THEN sent
        ELSE sendToWebSocket(sent, CHOOSE g \in others : TRUE, message, F)

\* faulty variant: no error message is sent
sendError_Silent(st, ws, errorMessage, F) == st
sendError(st, ws, errorMessage, F) ==
    sendToWebSocket([st EXCEPT !.nextId = @ + 1], ws,
                    ServerMessage(st.nextId, <<"Error: ", errorMessage>>, clock), F)

\* faulty variant: the history is never cut
addToHistory_NoCap(history, message) == Append(history, message)

\* faulty variant: the cut keeps the oldest entries
addToHistory_KeepOldest(history, message) ==
    LET pushed == Append(history, message) IN
    IF Len(pushed) > MAX_HISTORY THEN SubSeq(pushed, 1, MAX_HISTORY) ELSE pushed
\* faulty variant: nothing is pushed
addToHistory_NoPush(history, message) == history

addToHistory(history, message) ==
    LET pushed == Append(history, message) IN
    IF Len(pushed) > MAX_HISTORY THEN SliceLast(pushed, MAX_HISTORY) ELSE pushed

\* sessions.forEach: every entry present when the loop starts is visited, a
\* send that throws deletes only the entry being visited
RECURSIVE ForEachSend(_, _, _, _)
ForEachSend(st, todo, message, F) ==
    IF todo = {} THEN st
    ELSE LET ws == CHOOSE h \in todo : TRUE IN
         ForEachSend(sendToWebSocket(st, ws, message, F), todo \ {ws}, message, F)

\* faulty variant: the fan-out gives up as a whole when one send throws
broadcastMessage_AbortOnFailure(st, message, F) ==
    LET targets == DOMAIN st.sessions
        begun == [st EXCEPT !.bcast = <<message>>, !.targets = targets]
        broken == {h \in targets : Throws(F, h, st.attempts[h] + 1)}
    IN  IF broken = {} THEN ForEachSend(begun, targets, message, F)
        ELSE ForEachSend(begun, broken, message, F)

broadcastMessage(st, message, F) ==
    ForEachSend([st EXCEPT !.bcast = <<message>>, !.targets = DOMAIN st.sessions],
                DOMAIN st.sessions, message, F)

\* faulty variant: the messages are sent last first
RECURSIVE SendEach_Reversed(_, _, _, _)
SendEach_Reversed(st, ws, messages, F) ==
    IF messages = <<>> THEN st
    ELSE SendEach_Reversed(sendToWebSocket(st, ws, messages[Len(messages)], F), ws,
                           SubSeq(messages, 1, Len(messages) - 1), F)
\* for (const historyMessage of messages) await this.sendToWebSocket(ws, historyMessage)
RECURSIVE SendEach(_, _, _, _)
SendEach(st, ws, messages, F) ==
    IF messages = <<>> THEN st
    ELSE SendEach(sendToWebSocket(st, ws, Head(messages), F), ws, Tail(messages), F)

-----------------------------------------------------------------------------
(* The handlers of ChatRoom *)

\* faulty variant: the session is not written to the transport
StoreUser_NoAttachment(st, ws, user) ==
    [st EXCEPT !.sessions = MapSet(@, ws, user)]

\* this.sessions.set(ws, user); ws.serializeAttachment(user)
StoreUser(st, ws, user) ==
    [st EXCEPT !.sessions = MapSet(@, ws, user), !.attachment = MapSet(@, ws, user)]

\* faulty variant: a username with surrounding whitespace is refused
InvalidUsername_RejectsPadded(username) ==
    Falsy(username) \/ username.t # "string" \/ Len(Trim(username.s)) = 0
        \/ Trim(username.s) # username.s
\* faulty variant: the username is not trimmed before its length is tested
InvalidUsername_NoTrim(username) ==
    Falsy(username) \/ username.t # "string" \/ Len(username.s) = 0

\* !username || typeof username !== 'string' || username.trim().length === 0
InvalidUsername(username) ==
    Falsy(username) \/ username.t # "string" \/ Len(Trim(username.s)) = 0

\* faulty variant: no username is ever found taken
UsernameTaken_Never(registry, username) == FALSE

\* Array.from(this.sessions.values()).find((user) => user.username === username)
UsernameTaken(registry, username) ==
    \E h \in DOMAIN registry : registry[h].username = username.s

handleUserJoin(st, ws, username, F) ==
    IF InvalidUsername(username)
    THEN Outcome(sendError(st, ws, "Invalid username", F), "invalid_username")
    ELSE IF UsernameTaken(st.sessions, username)
    THEN Outcome(sendError(st, ws, "Username already taken", F), "duplicate")
    ELSE
        LET user == ChatUser(Trim(username.s), st.nextId, clock)
            stored == StoreUser([st EXCEPT !.nextId = @ + 1], ws, user)
            welcomed == sendToWebSocket(
                            [stored EXCEPT !.nextId = @ + 1], ws,
                            ServerMessage(stored.nextId,
                                          <<"Welcome to the chat, ">> \o user.username \o <<"!">>,
                                          clock), F)
            replayed == SendEach(welcomed, ws,
                                 SliceLast(welcomed.messageHistory, REPLAY_COUNT), F)
            joinMessage == UserJoinedMessage(replayed.nextId, user.username, clock)
            appended == [replayed EXCEPT !.nextId = @ + 1,
                                        !.messageHistory = addToHistory(@, joinMessage)]
        IN  Outcome(broadcastMessage(appended, joinMessage, F), "joined")

\* faulty variant: the content is not trimmed before its length is tested
EmptyContent_NoTrim(content) ==
    Falsy(content) \/ (content.t = "string" /\ Len(content.s) = 0)

\* !content || content.trim().length === 0, where it does not throw
EmptyContent(content) ==
    Falsy(content) \/ (content.t = "string" /\ Len(Trim(content.s)) = 0)

\* faulty variant: the message goes to the other connections only
handleSendMessage_OthersOnly(st, ws, content, F) ==
    IF ws \notin DOMAIN st.sessions
    THEN Outcome(sendError(st, ws, "Not authenticated. Please join the chat first.", F),
                 "not_authenticated")
    ELSE IF EmptyContent(content)
    THEN Outcome(sendError(st, ws, "Message cannot be empty", F), "empty_message")
    ELSE IF content.t # "string"
    THEN [st EXCEPT !.thrown = TRUE]
    ELSE
        LET chatMessage == ChatMessage(st.nextId, Trim(content.s),
                                       st.sessions[ws].username, clock)
            appended == [st EXCEPT !.nextId = @ + 1,
                                   !.messageHistory = addToHistory(@, chatMessage)]
        IN  Outcome(ForEachSend([appended EXCEPT !.bcast = <<chatMessage>>,
                                                 !.targets = DOMAIN st.sessions \ {ws}],
                                DOMAIN st.sessions \ {ws}, chatMessage, F), "sent")
\* faulty variant: a handle without a session may talk, under an empty name
handleSendMessage_Anonymous(st, ws, content, F) ==
    IF EmptyContent(content)
    THEN Outcome(sendError(st, ws, "Message cannot be empty", F), "empty_message")
    ELSE IF content.t # "string"
    THEN [st EXCEPT !.thrown = TRUE]
    ELSE
        LET name == IF ws \in DOMAIN st.sessions THEN st.sessions[ws].username ELSE <<>>
            chatMessage == ChatMessage(st.nextId, Trim(content.s), name, clock)
            appended == [st EXCEPT !.nextId = @ + 1,
                                   !.messageHistory = addToHistory(@, chatMessage)]
        IN  Outcome(broadcastMessage(appended, chatMessage, F), "sent")
handleSendMessage(st, ws, content, F) ==
    IF ws \notin DOMAIN st.sessions
    THEN Outcome(sendError(st, ws, "Not authenticated. Please join the chat first.", F),
                 "not_authenticated")
    ELSE IF EmptyContent(content)
    THEN Outcome(sendError(st, ws, "Message cannot be empty", F), "empty_message")
    ELSE IF content.t # "string"
    THEN \* content.trim is not a function
         [st EXCEPT !.thrown = TRUE]
    ELSE
        LET chatMessage == ChatMessage(st.nextId, Trim(content.s),
                                       st.sessions[ws].username, clock)
            appended == [st EXCEPT !.nextId = @ + 1,
                                   !.messageHistory = addToHistory(@, chatMessage)]
        IN  Outcome(broadcastMessage(appended, chatMessage, F), "sent")

\* faulty variant: a user_left is emitted whether or not there is an entry
handleUserLeave_AlwaysAnnounces(st, ws, F) ==
    LET name == IF ws \in DOMAIN st.sessions THEN st.sessions[ws].username ELSE <<>>
        leaveMessage == UserLeftMessage(st.nextId, name, clock)
        removed == [st EXCEPT !.nextId = @ + 1,
                              !.sessions = MapDelete(@, ws),
                              !.messageHistory = addToHistory(@, leaveMessage)]
        left == Outcome(broadcastMessage(removed, leaveMessage, F),
                        IF ws \in DOMAIN st.sessions THEN "left" ELSE "no_session")
    IN  [left EXCEPT !.closeCode = NORMAL_CLOSURE,
                     !.status[ws] = IF @ = "open" THEN "closed" ELSE "gone"]
\* faulty variant: the user_left is broadcast before the entry is deleted
handleUserLeave_BroadcastFirst(st, ws, F) ==
    LET left ==
            IF ws \in DOMAIN st.sessions
            THEN LET leaveMessage == UserLeftMessage(st.nextId, st.sessions[ws].username, clock)
                     appended == [st EXCEPT !.nextId = @ + 1,
                                            !.messageHistory = addToHistory(@, leaveMessage)]
                     sent == broadcastMessage(appended, leaveMessage, F)
                 IN  Outcome([sent EXCEPT !.sessions = MapDelete(@, ws)], "left")
            ELSE Outcome(st, "no_session")
    IN  [left EXCEPT !.closeCode = NORMAL_CLOSURE,
                     !.status[ws] = IF @ = "open" THEN "closed" ELSE "gone"]
handleUserLeave(st, ws, F) ==
    LET left ==
            IF ws \in DOMAIN st.sessions
            THEN LET leaveMessage == UserLeftMessage(st.nextId, st.sessions[ws].username, clock)
                     removed == [st EXCEPT !.nextId = @ + 1,
                                           !.sessions = MapDelete(@, ws),
                                           !.messageHistory = addToHistory(@, leaveMessage)]
                 IN  Outcome(broadcastMessage(removed, leaveMessage, F), "left")
            ELSE Outcome(st, "no_session")
    IN  [left EXCEPT !.closeCode = NORMAL_CLOSURE,
                     !.status[ws] = IF @ = "open" THEN "closed" ELSE "gone"]

\* The text of an inbound frame: the literal ping, text JSON.parse rejects, or
\* a JSON object with its type, username and content members (and the id and
\* timestamp members a client may add)
PingText ==
    [kind |-> "ping", type |-> "", username |-> JsUndefined, content |-> JsUndefined,
     id |-> JsUndefined, timestamp |-> JsUndefined]
GarbageText ==
    [kind |-> "garbage", type |-> "", username |-> JsUndefined, content |-> JsUndefined,
     id |-> JsUndefined, timestamp |-> JsUndefined]
JsonText(type, username, content) ==
    [kind |-> "json", type |-> type, username |-> username, content |-> content,
     id |-> JsUndefined, timestamp |-> JsUndefined]

\* faulty variant: a send_message is attributed to the username its payload names
webSocketMessage_TrustsClient(st, ws, message, F) ==
    IF message.kind = "ping"
    THEN Outcome(RawSend(st, ws, Pong, F), "pong")
    ELSE
        LET named == IF ws \in DOMAIN st.sessions /\ message.username.t = "string"
                     THEN [st EXCEPT !.sessions[ws].username = message.username.s]
                     ELSE st
            tried ==
                IF message.kind = "garbage" THEN [st EXCEPT !.thrown = TRUE]
                ELSE IF message.type = "join_chat"
                THEN handleUserJoin(st, ws, message.username, F)
                ELSE IF message.type = "send_message"
                THEN handleSendMessage(named, ws, message.content, F)
                ELSE IF message.type = "leave_chat"
                THEN handleUserLeave(st, ws, F)
                ELSE Outcome(sendError(st, ws, "Unknown message type", F), "unknown_type")
        IN  IF tried.thrown
            THEN Outcome(sendError([tried EXCEPT !.thrown = FALSE], ws,
                                   "Invalid message format", F), "invalid_format")
            ELSE tried
webSocketMessage(st, ws, message, F) ==
    IF message.kind = "ping"
    THEN Outcome(RawSend(st, ws, Pong, F), "pong")
    ELSE
        LET tried ==
                IF message.kind = "garbage" THEN [st EXCEPT !.thrown = TRUE]
                ELSE IF message.type = "join_chat"
                THEN handleUserJoin(st, ws, message.username, F)
                ELSE IF message.type = "send_message"
                THEN handleSendMessage(st, ws, message.content, F)
                ELSE IF message.type = "leave_chat"
                THEN handleUserLeave(st, ws, F)
                ELSE Outcome(sendError(st, ws, "Unknown message type", F), "unknown_type")
        IN  IF tried.thrown
            THEN Outcome(sendError([tried EXCEPT !.thrown = FALSE], ws,
                                   "Invalid message format", F), "invalid_format")
            ELSE tried

webSocketClose(st, ws, F) == handleUserLeave(st, ws, F)

handleWebSocketUpgrade(st, server, F) ==
    Outcome(RawSend([st EXCEPT !.status[server] = "open", !.nextId = @ + 1], server,
                    ServerMessage(st.nextId, <<"Connected to chat server">>, clock), F),
            "connected")

\* ChatRoom.constructor: the registry is rebuilt from the attachments of the
\* transports ctx.getWebSockets() returns, the history starts empty
\* faulty variant: the constructor restores nothing
Rehydrated_Nothing(att, stat) == EmptyMap

\* faulty variant: a transport without an attachment is given an entry too
Rehydrated_NoAttachmentTest(att, stat) ==
    [ws \in {h \in DOMAIN stat : stat[h] = "open"} |->
        IF ws \in DOMAIN att THEN att[ws] ELSE ChatUser(<<>>, 0, 0)]
\* faulty variant: the transports already closed are restored as well
Rehydrated_Closed(att, stat) ==
    [ws \in {h \in DOMAIN att : stat[h] \in {"open", "closed"}} |-> att[ws]]
Rehydrated(att, stat) ==
    [ws \in {h \in DOMAIN att : stat[h] = "open"} |-> att[ws]]

-----------------------------------------------------------------------------
(* Inputs *)

Usernames ==
    {JsString(<<"a">>), JsString(<<"A">>), JsString(<<" ", "a">>),
     JsString(<<" ">>), JsString(<<>>), JsUndefined, JsNumber}

Contents ==
    {JsString(<<"h">>), JsString(<<" ", "h", " ">>), JsString(<<" ">>),
     JsString(<<>>), JsUndefined, JsNumber}

Min(a, b) == IF a <= b THEN a ELSE b

\* The failure inputs of an event of handle ws whose handler makes at most n
\* sends to ws: they fail from the k-th on (k = 0: never), and the one send a
\* broadcast makes to each joined handle of B fails
FailureInputs(ws, n) ==
    {[h \in Handles |-> IF h = ws THEN k ELSE IF h \in B THEN 1 ELSE 0] :
        k \in 0..Min(n, MaxFailAt), B \in SUBSET (DOMAIN sessions \ {ws})}

NoFailure == [h \in Handles |-> 0]

-----------------------------------------------------------------------------
(* The state machine *)

NoEvent ==
    [op |-> "init", ws |-> 0, message |-> GarbageText, outcome |-> "",
     joinedBefore |-> {}, bcast |-> <<>>, targets |-> {}, failed |-> {},
     thrown |-> FALSE, closeCode |-> 0, room |-> "", response |-> <<>>]

\* the fields of a ChatRoom instance no connection has reached yet
NewRoom ==
    [sessions |-> EmptyMap, messageHistory |-> <<>>, attachment |-> EmptyMap,
     status |-> [h \in Handles |-> "none"]]

\* the chatState of a page that has just been opened
NewPage == [socket |-> 0, isConnected |-> FALSE, isJoined |-> FALSE]

Pages == {1, 2}

NoPages == [p \in Pages |-> NewPage]

Init ==
    /\ sessions = EmptyMap
    /\ messageHistory = <<>>
    /\ attachment = EmptyMap
    /\ status = [h \in Handles |-> "none"]
    /\ nextId = 1
    /\ clock = 0
    /\ delivered = [h \in Handles |-> <<>>]
    /\ inbox = [h \in Handles |-> <<>>]
    /\ peer = NewRoom
    /\ room = [h \in Handles |-> "none"]
    /\ rate = <<>>
    /\ chatState = NoPages
    /\ inflight = [h \in Handles |-> <<>>]
    /\ calls = <<>>
    /\ ev = NoEvent

\* the result st of the handler of the event (op, ws, message) becomes the state
Observe(op, ws, message, st) ==
    /\ sessions' = st.sessions
    /\ messageHistory' = st.messageHistory
    /\ attachment' = st.attachment
    /\ status' = st.status
    /\ nextId' = st.nextId
    /\ delivered' = st.delivered
    /\ ev' = [op |-> op, ws |-> ws, message |-> message, outcome |-> st.outcome,
              joinedBefore |-> DOMAIN sessions, bcast |-> st.bcast,
              targets |-> st.targets, failed |-> st.failed,
              thrown |-> st.thrown, closeCode |-> st.closeCode,
              room |-> "", response |-> <<>>]
    /\ clock' = clock + 1
    /\ UNCHANGED <<peer, room, rate, calls>>

Commit(op, ws, message, st) ==
    /\ Observe(op, ws, message, st)
    /\ inbox' = inbox
    /\ UNCHANGED <<chatState, inflight>>

\* a new connection: ChatRoom.fetch with an Upgrade header
Connect ==
    /\ clock < MaxEvents
    /\ \E h \in Handles :
        /\ status[h] = "none"
        /\ \A g \in Handles : g < h => status[g] # "none"
        /\ Commit("connect", h, GarbageText, handleWebSocketUpgrade(Begin, h, NoFailure))

JoinChat ==
    /\ clock < MaxEvents
    /\ \E h \in Handles, u \in Usernames :
        /\ status[h] = "open"
        /\ \E F \in FailureInputs(h, Len(messageHistory) + 2) :
            LET message == JsonText("join_chat", u, JsUndefined) IN
            Commit("message", h, message, webSocketMessage(Begin, h, message, F))

SendMessage ==
    /\ clock < MaxEvents
    /\ \E h \in Handles, c \in Contents :
        /\ status[h] = "open"
        /\ \E F \in FailureInputs(h, 1) :
            LET message == JsonText("send_message", JsUndefined, c) IN
            Commit("message", h, message, webSocketMessage(Begin, h, message, F))

LeaveChat ==
    /\ clock < MaxEvents
    /\ \E h \in Handles :
        /\ status[h] = "open"
        /\ \E F \in FailureInputs(h, 0) :
            LET message == JsonText("leave_chat", JsUndefined, JsUndefined) IN
            Commit("message", h, message, webSocketMessage(Begin, h, message, F))

OtherFrame ==
    /\ clock < MaxEvents
    /\ \E h \in Handles,
          message \in {PingText, GarbageText, JsonText("other", JsUndefined, JsUndefined)} :
        /\ status[h] = "open"
        /\ \E F \in FailureInputs(h, 1) :
            Commit("message", h, message, webSocketMessage(Begin, h, message, F))

\* the transport reports a closure: of an open connection, or once more of one
\* the coordinator has closed itself
TransportClose ==
    /\ clock < MaxEvents
    /\ \E h \in Handles :
        /\ status[h] \in {"open", "closed"}
        /\ \E F \in FailureInputs(h, 0) :
            Commit("close", h, GarbageText, webSocketClose(Begin, h, F))

\* the host evicts the coordinator and constructs it again
Evict ==
    /\ ev.op # "evict"
    /\ sessions' = Rehydrated(attachment, status)
    /\ messageHistory' = <<>>
    /\ delivered' = [h \in Handles |-> <<>>]
    /\ ev' = [NoEvent EXCEPT !.op = "evict", !.joinedBefore = DOMAIN sessions]
    /\ UNCHANGED <<attachment, status, nextId, clock, inbox, peer, room, rate,
                   chatState, inflight, calls>>

Next ==
    \/ Connect
    \/ JoinChat
    \/ SendMessage
    \/ LeaveChat
    \/ OtherFrame
    \/ TransportClose
    \/ Evict

Spec == Init /\ [][Next]_vars

-----------------------------------------------------------------------------
(* A long conversation: the same handlers, with the inputs narrowed so that *)
(* the history grows past the replay window.  Two connections, each joins   *)
(* once under its own name, only handle 1 talks, nobody leaves, and the     *)
(* only sends that throw are those to the joining handle.                   *)

LongHandles == {1, 2}

LongUsername(h) == IF h = 1 THEN JsString(<<"A">>) ELSE JsString(<<" ", "a">>)

LongFailureInputs(ws, n) ==
    {[h \in Handles |-> IF h = ws THEN k ELSE 0] : k \in 0..Min(n, MaxFailAt)}

LongConnect ==
    /\ clock < LongMaxEvents
    /\ \E h \in LongHandles :
        /\ status[h] = "none"
        /\ \A g \in Handles : g < h => status[g] # "none"
        /\ Commit("connect", h, GarbageText, handleWebSocketUpgrade(Begin, h, NoFailure))

LongJoinChat ==
    /\ clock < LongMaxEvents
    /\ \E h \in LongHandles :
        /\ status[h] = "open"
        /\ h \notin DOMAIN attachment
        /\ \E F \in LongFailureInputs(h, Len(messageHistory) + 2) :
            LET message == JsonText("join_chat", LongUsername(h), JsUndefined) IN
            Commit("message", h, message, webSocketMessage(Begin, h, message, F))

LongSendMessage ==
    /\ clock < LongMaxEvents
    /\ 1 \in DOMAIN sessions
    /\ LET message == JsonText("send_message", JsUndefined, JsString(<<" ", "h", " ">>)) IN
        Commit("message", 1, message, webSocketMessage(Begin, 1, message, NoFailure))

LongNext ==
    \/ LongConnect
    \/ LongJoinChat
    \/ LongSendMessage

SpecLong == Init /\ [][LongNext]_vars

-----------------------------------------------------------------------------
(* Claims *)

Last(s) == s[Len(s)]
Joined == DOMAIN sessions

\* C1: in every reachable state no two entries of the session registry hold
\* the same username (case-sensitive exact match).
C1_UniqueUsernames ==
    \A h1 \in Joined, h2 \in Joined :
        h1 # h2 => sessions[h1].username # sessions[h2].username

\* C2: when a broadcast's send to one of the joined connections fails, every
\* other joined connection still gets the message (once, as the last thing
\* sent to it), and the failed connection has no session when the broadcast
\* has returned.
C2_BroadcastIsolatesFailure ==
    ev.bcast # <<>> =>
        \A h \in ev.targets :
            IF h \in ev.failed
            THEN h \notin Joined
            ELSE /\ delivered[h] # <<>>
                 /\ Last(delivered[h]) = ev.bcast[1]
                 /\ Cardinality({i \in 1..Len(delivered[h]) :
                                    delivered[h][i] = ev.bcast[1]}) = 1

C2_Witness ==
    /\ ev.bcast # <<>>
    /\ \E f \in ev.targets, g \in ev.targets :
        /\ f \in ev.failed
        /\ g \notin ev.failed
        /\ Last(delivered[g]) = ev.bcast[1]

\* C3: after the coordinator is evicted and constructed again, every handle
\* still open that held a session at eviction holds exactly that session
\* (username, connectionId, joinedAt), and the history is empty.
C3_EvictionRestoresSessions ==
    [][ev'.op = "evict" =>
        /\ \A h \in Joined :
            status[h] = "open" => h \in DOMAIN sessions' /\ sessions'[h] = sessions[h]
        /\ messageHistory' = <<>>]_vars

C3_Witness ==
    /\ ev.op = "evict"
    /\ messageHistory = <<>>
    /\ \E h \in ev.joinedBefore : status[h] = "open" /\ h \in Joined

\* C4: in every reachable state each handle with a session in the registry
\* carries an attachment equal to that session.
C4_AttachmentIsSession ==
    \A h \in Joined : h \in DOMAIN attachment /\ attachment[h] = sessions[h]

C4_Witness ==
    /\ ev.op = "message"
    /\ ev.outcome = "joined"
    /\ ev.ws \in Joined
    /\ attachment[ev.ws] = sessions[ev.ws]

\* C5: on a successful join the joining connection receives, in this order,
\* one welcome server message, the last min(10, |History|) entries of the
\* history in stored order, and after those the user_joined event of its own
\* join; when a send to it throws, what it received is a proper prefix of that.
C5_JoinDeliveryOrder ==
    [][(ev'.op = "message" /\ ev'.outcome = "joined") =>
        LET h == ev'.ws
            name == Trim(ev'.message.username.s)
            n == Min(REPLAY_COUNT, Len(messageHistory))
            replay == [i \in 1..n |-> messageHistory[Len(messageHistory) - n + i]]
            welcome == ServerMessage(nextId + 1,
                                     <<"Welcome to the chat, ">> \o name \o <<"!">>, clock)
            expected == <<welcome>> \o replay \o ev'.bcast
            got == delivered'[h]
        IN  /\ Len(ev'.bcast) = 1
            /\ ev'.bcast[1].type = "user_joined"
            /\ ev'.bcast[1].username = name
            /\ Len(got) <= Len(expected)
            /\ got = SubSeq(expected, 1, Len(got))
            /\ (h \notin ev'.failed <=> got = expected)]_vars

C5_Witness ==
    /\ ev.op = "message"
    /\ ev.outcome = "joined"
    /\ ev.ws \notin ev.failed
    /\ Len(messageHistory) > REPLAY_COUNT + 1
    /\ Len(delivered[ev.ws]) = REPLAY_COUNT + 2
    /\ delivered[ev.ws][1].type = "server"
    /\ delivered[ev.ws][2].id < delivered[ev.ws][REPLAY_COUNT + 1].id
    /\ Last(delivered[ev.ws]).type = "user_joined"

\* t is s without its leading and trailing whitespace
IsTrimOf(t, s) ==
    /\ t = <<>> \/ (~IsSpace(t[1]) /\ ~IsSpace(t[Len(t)]))
    /\ \E i \in 0..Len(s), j \in 0..Len(s) :
        /\ i + Len(t) + j = Len(s)
        /\ SubSeq(s, i + 1, i + Len(t)) = t
        /\ \A k \in 1..i : IsSpace(s[k])
        /\ \A k \in (Len(s) - j + 1)..Len(s) : IsSpace(s[k])

\* the history after one append of m to history old
Appended(old, m) ==
    LET full == Append(old, m) IN
    IF Len(full) <= MAX_HISTORY THEN full
    ELSE [i \in 1..MAX_HISTORY |-> full[Len(full) - MAX_HISTORY + i]]

IsErrorMessage(m) == m.type = "server" /\ m.content[1] = "Error: "

\* C6: a successful join by a connected handle creates a session for it (in
\* the registry unless a send to the joiner threw in the same step, and on
\* the transport), appends exactly one user_joined event with the session's
\* username to the history, and delivers that event to every other connection
\* joined at that moment (to each whose send does not throw), and to no
\* connection that is not joined.
C6_JoinAnnounced ==
    [][(ev'.op = "message" /\ ev'.outcome = "joined" /\ ev'.ws \notin Joined) =>
        LET h == ev'.ws
            jm == ev'.bcast[1]
        IN  /\ h \in DOMAIN attachment'
            /\ IsTrimOf(attachment'[h].username, ev'.message.username.s)
            /\ attachment'[h].connectionId >= nextId
            /\ attachment'[h].joinedAt = clock
            /\ (h \notin ev'.failed => h \in DOMAIN sessions')
            /\ (h \in DOMAIN sessions' => sessions'[h] = attachment'[h])
            /\ Len(ev'.bcast) = 1
            /\ jm.type = "user_joined"
            /\ jm.username = attachment'[h].username
            /\ jm.id >= nextId
            /\ messageHistory' = Appended(messageHistory, jm)
            /\ \A g \in Joined :
                delivered'[g] = IF g \in ev'.failed THEN <<>> ELSE <<jm>>
            /\ \A g \in Handles \ (Joined \cup {h}) : delivered'[g] = <<>>]_vars

C6_Witness ==
    /\ ev.op = "message"
    /\ ev.outcome = "joined"
    /\ ev.ws \notin ev.joinedBefore
    /\ ev.ws \in Joined
    /\ Last(messageHistory) = ev.bcast[1]
    /\ \E g \in ev.joinedBefore : delivered[g] = ev.bcast

\* C7: a send_message with non-blank content from a joined handle mints
\* exactly one message event whose content is the trimmed input and whose
\* username is the sender's session username, appends it to the history and
\* delivers it to every joined connection, the sender included (to each whose
\* send does not throw), and to no other connection.
C7_SendBroadcast ==
    [][(/\ ev'.op = "message"
        /\ ev'.message.kind = "json"
        /\ ev'.message.type = "send_message"
        /\ ev'.message.content.t = "string"
        /\ \E i \in 1..Len(ev'.message.content.s) : ~IsSpace(ev'.message.content.s[i])
        /\ ev'.ws \in Joined) =>
        LET h == ev'.ws
            m == ev'.bcast[1]
        IN  /\ ev'.outcome = "sent"
            /\ Len(ev'.bcast) = 1
            /\ m.type = "message"
            /\ IsTrimOf(m.content, ev'.message.content.s)
            /\ m.username = sessions[h].username
            /\ m.id >= nextId
            /\ messageHistory' = Appended(messageHistory, m)
            /\ \A g \in Joined :
                delivered'[g] = IF g \in ev'.failed THEN <<>> ELSE <<m>>
            /\ \A g \in Handles \ Joined : delivered'[g] = <<>>]_vars

C7_Witness ==
    /\ ev.op = "message"
    /\ ev.outcome = "sent"
    /\ ev.message.content.s = <<" ", "h", " ">>
    /\ ev.bcast[1].content = <<"h">>
    /\ Last(messageHistory) = ev.bcast[1]
    /\ delivered[ev.ws] = ev.bcast
    /\ \E g \in Joined : g # ev.ws /\ delivered[g] = ev.bcast

\* what a refused request leaves behind, apart from the registry: the history
\* and the attachments are unchanged, nothing is broadcast, the requesting
\* connection h is sent one error message and no other connection anything
RefusedWithError(h) ==
    /\ messageHistory' = messageHistory
    /\ attachment' = attachment
    /\ ev'.bcast = <<>>
    /\ IF h \in ev'.failed
       THEN delivered'[h] = <<>>
       ELSE Len(delivered'[h]) = 1 /\ IsErrorMessage(delivered'[h][1])
    /\ \A g \in Handles \ {h} : delivered'[g] = <<>>

\* the registry after a refused request of h: unchanged, except that the
\* requester's own session is removed when the send of the error threw
RegistryAfterRefusal(h) ==
    sessions' = IF h \in ev'.failed THEN MapDelete(sessions, h) ELSE sessions

BlankSend ==
    /\ ev'.op = "message"
    /\ ev'.message.kind = "json"
    /\ ev'.message.type = "send_message"
    /\ ev'.message.content.t = "string"
    /\ \A i \in 1..Len(ev'.message.content.s) : IsSpace(ev'.message.content.s[i])

\* C8 as stated: a send_message whose content is empty or whitespace-only is
\* rejected: the registry and the history are unchanged, nothing is broadcast,
\* and one error message is sent to the sender only.
C8_Original ==
    [][BlankSend => (RefusedWithError(ev'.ws) /\ sessions' = sessions)]_vars

\* C8 as amended: a send_message whose content is empty or whitespace-only is
\* rejected: the history is unchanged, nothing is broadcast, one error message
\* is sent to the sender only, and the registry is unchanged unless the send of
\* that error throws, in which case the sender's own session is removed.
C8_BlankSendRejected ==
    [][BlankSend =>
        /\ ev'.outcome \in {"empty_message", "not_authenticated"}
        /\ (ev'.ws \in Joined => ev'.outcome = "empty_message")
        /\ RefusedWithError(ev'.ws)
        /\ RegistryAfterRefusal(ev'.ws)]_vars

C8_Witness ==
    /\ ev.op = "message"
    /\ ev.outcome = "empty_message"
    /\ ev.message.content.s = <<" ">>
    /\ ev.ws \in Joined
    /\ Len(delivered[ev.ws]) = 1
    /\ IsErrorMessage(delivered[ev.ws][1])
    /\ Cardinality(Joined) > 1

DuplicateJoin ==
    /\ ev'.op = "message"
    /\ ev'.message.kind = "json"
    /\ ev'.message.type = "join_chat"
    /\ ev'.message.username.t = "string"
    /\ \E g \in Joined : sessions[g].username = ev'.message.username.s

\* C9 as stated: a join_chat whose username equals (case-sensitive) the
\* username of an already-joined session always fails as a duplicate: no
\* user_joined is emitted, the registry and the history are unchanged, and an
\* error is sent only to the requesting connection.
C9_Original ==
    [][DuplicateJoin =>
        /\ ev'.outcome = "duplicate"
        /\ RefusedWithError(ev'.ws)
        /\ sessions' = sessions]_vars

\* C9 as amended: such a join_chat always fails as a duplicate: no user_joined
\* is emitted, the history is unchanged, an error is sent only to the
\* requesting connection, and the registry is unchanged unless the send of
\* that error throws, in which case the requester's own session (if it has
\* one) is removed.
C9_DuplicateJoinRefused ==
    [][DuplicateJoin =>
        /\ ev'.outcome = "duplicate"
        /\ RefusedWithError(ev'.ws)
        /\ RegistryAfterRefusal(ev'.ws)]_vars

C9_Witness ==
    /\ ev.op = "message"
    /\ ev.outcome = "duplicate"
    /\ ev.ws \notin Joined
    /\ \E g \in Joined : sessions[g].username = ev.message.username.s
    /\ Len(delivered[ev.ws]) = 1
    /\ IsErrorMessage(delivered[ev.ws][1])

InvalidJoin ==
    /\ ev'.op = "message"
    /\ ev'.message.kind = "json"
    /\ ev'.message.type = "join_chat"
    /\ \/ ev'.message.username.t # "string"
       \/ \A i \in 1..Len(ev'.message.username.s) : IsSpace(ev'.message.username.s[i])

\* C10 as stated: a join_chat whose username is missing, not a string, or
\* empty after trimming is refused: no session and no attachment is created,
\* the registry and the history are unchanged, nothing is broadcast, and an
\* error is sent only to the requesting connection.
C10_Original ==
    [][InvalidJoin =>
        /\ ev'.outcome = "invalid_username"
        /\ RefusedWithError(ev'.ws)
        /\ sessions' = sessions]_vars

\* C10 as amended: such a join_chat is refused: no session and no attachment
\* is created, the history is unchanged, nothing is broadcast, an error is
\* sent only to the requesting connection, and the registry is unchanged
\* unless the send of that error throws, in which case the requester's own
\* session (if it has one) is removed.
C10_InvalidJoinRefused ==
    [][InvalidJoin =>
        /\ ev'.outcome = "invalid_username"
        /\ RefusedWithError(ev'.ws)
        /\ RegistryAfterRefusal(ev'.ws)]_vars

C10_Witness ==
    /\ ev.op = "message"
    /\ ev.outcome = "invalid_username"
    /\ ev.message.username = JsString(<<" ">>)
    /\ ev.ws \notin DOMAIN attachment
    /\ Joined # {}
    /\ Len(delivered[ev.ws]) = 1
    /\ IsErrorMessage(delivered[ev.ws][1])

-----------------------------------------------------------------------------
(* A round of joins: every connection asks once to join, under a name that  *)
(* is non-empty after trimming and differs, after trimming, from the names  *)
(* asked for before.  Any send of a join may throw.                         *)

JoinsUsernames ==
    {JsString(<<"a">>), JsString(<<" ", "a">>), JsString(<<"A">>),
     JsString(<<"A", " ">>), JsString(<<"b">>), JsString(<<" ", "b", " ">>)}

JoinsConnect ==
    \E h \in Handles :
        /\ status[h] = "none"
        /\ \A g \in Handles : g < h => status[g] # "none"
        /\ Commit("connect", h, GarbageText, handleWebSocketUpgrade(Begin, h, NoFailure))

JoinsJoinChat ==
    \E h \in Handles, u \in JoinsUsernames :
        /\ status[h] = "open"
        /\ h \notin DOMAIN attachment
        /\ \A g \in DOMAIN attachment : attachment[g].username # Trim(u.s)
        /\ \E F \in FailureInputs(h, Len(messageHistory) + 2) :
            LET message == JsonText("join_chat", u, JsUndefined) IN
            Commit("message", h, message, webSocketMessage(Begin, h, message, F))

JoinsNext ==
    \/ JoinsConnect
    \/ JoinsJoinChat

SpecJoins == Init /\ [][JoinsNext]_vars

\* C11 as stated: after joins from distinct connected handles under names
\* that are non-empty and pairwise distinct after trimming, every handle that
\* asked has a session, and the registry holds one session per name.
C11_Original ==
    /\ ev.op = "message" => ev.outcome = "joined"
    /\ Joined = DOMAIN attachment
    /\ \A h1 \in Joined, h2 \in Joined :
        h1 # h2 => sessions[h1].username # sessions[h2].username

\* C11 (amended): every such join passes validation and the duplicate test
\* and runs to its broadcast, storing the trimmed name; after it the registry
\* holds the joiner and the sessions it held before, each once, under
\* pairwise distinct names, less the handles a send of this join failed for.
C11_DistinctJoinsSucceed ==
    [][ev'.op = "message" =>
        /\ ev'.outcome = "joined"
        /\ ~ev'.thrown
        /\ ev'.ws \in DOMAIN attachment'
        /\ IsTrimOf(attachment'[ev'.ws].username, ev'.message.username.s)
        /\ DOMAIN sessions' = (Joined \cup {ev'.ws}) \ ev'.failed
        /\ \A g \in DOMAIN sessions' :
            sessions'[g] = IF g = ev'.ws THEN attachment'[g] ELSE sessions[g]
        /\ \A h1 \in DOMAIN sessions', h2 \in DOMAIN sessions' :
            h1 # h2 => sessions'[h1].username # sessions'[h2].username]_vars

C11_Witness ==
    /\ ev.op = "message"
    /\ ev.outcome = "joined"
    /\ ev.ws \in Joined
    /\ ev.message.username.s # sessions[ev.ws].username
    /\ Cardinality(Joined) >= 3
    /\ ev.failed = {}

\* a closure signal of a handle: its leave_chat or the close event of its transport
ClosureSignal ==
    \/ ev'.op = "close"
    \/ ev'.op = "message" /\ ev'.message.kind = "json" /\ ev'.message.type = "leave_chat"

\* C12: when a joined handle sends leave_chat or its transport closes, its
\* session is removed, one user_left event with its username is appended and
\* delivered to every connection that is joined after the event, nothing is
\* sent to the leaver or to a connection that was not joined, and the
\* transport is closed with code 1000.
C12_LeaveAnnounced ==
    [][(ClosureSignal /\ ev'.ws \in Joined) =>
        LET h == ev'.ws IN
        /\ ev'.outcome = "left"
        /\ h \notin DOMAIN sessions'
        /\ Len(ev'.bcast) = 1
        /\ ev'.bcast[1].type = "user_left"
        /\ ev'.bcast[1].username = sessions[h].username
        /\ messageHistory' = Appended(messageHistory, ev'.bcast[1])
        /\ DOMAIN sessions' = (Joined \ {h}) \ ev'.failed
        /\ \A g \in DOMAIN sessions' :
            sessions'[g] = sessions[g] /\ delivered'[g] = <<ev'.bcast[1]>>
        /\ \A g \in Handles \ DOMAIN sessions' : delivered'[g] = <<>>
        /\ ev'.closeCode = NORMAL_CLOSURE
        /\ status'[h] # "open"]_vars

C12_Witness ==
    /\ ev.op = "message"
    /\ ev.message.type = "leave_chat"
    /\ ev.outcome = "left"
    /\ ev.closeCode = NORMAL_CLOSURE
    /\ status[ev.ws] = "closed"
    /\ ev.ws \notin Joined
    /\ \E g \in Joined : delivered[g] = ev.bcast /\ ev.bcast[1].type = "user_left"
    /\ delivered[ev.ws] = <<>>

C14_HistoryBounded == Len(messageHistory) <= MAX_HISTORY

C14_Witness ==
    /\ Len(messageHistory) = MAX_HISTORY
    /\ messageHistory[1].type = "message"
    /\ ev.bcast # <<>>

\* C15: the history is the last min(n, MAX_HISTORY) of the n messages appended
\* since construction, in the order of their appends.  Step by step: a
\* construction empties the history, an event that emits no room event
\* leaves it as it is, and an event that emits one puts exactly that new
\* message at its end and then drops, from the front only, what exceeds
\* MAX_HISTORY.
C15_HistoryIsSuffix ==
    [][IF ev'.op = "evict" THEN messageHistory' = <<>>
       ELSE IF ev'.bcast = <<>> THEN messageHistory' = messageHistory
       ELSE /\ Len(ev'.bcast) = 1
            /\ ev'.bcast[1].id >= nextId
            /\ LET full == Append(messageHistory, ev'.bcast[1])
                   drop == IF Len(full) > MAX_HISTORY THEN Len(full) - MAX_HISTORY ELSE 0
               IN  /\ Len(messageHistory') = Min(Len(full), MAX_HISTORY)
                   /\ \A i \in 1..Len(messageHistory') :
                          messageHistory'[i] = full[i + drop]]_vars

C15_Witness ==
    /\ Len(messageHistory) = MAX_HISTORY
    /\ messageHistory[1].type = "message"
    /\ ev.bcast # <<>>
    /\ Last(messageHistory) = ev.bcast[1]
    /\ \A i \in 1..(MAX_HISTORY - 1) : messageHistory[i].id < messageHistory[i + 1].id
    /\ Cardinality(Joined) = 2

-----------------------------------------------------------------------------
(* Delivery order: the same handlers, with what each connection has been    *)
(* sent recorded over the whole run.  Two connections, two names, one       *)
(* content; joins (also repeated ones), messages, leaves, closes and        *)
(* evictions, with any send throwing.                                       *)

OrderHandles == {1, 2}

OrderUsernames == {JsString(<<"a">>), JsString(<<"A">>)}

\* user_joined, message and user_left are the events of the room; their ids
\* are drawn from one counter, so they grow in the order of the handling
IsRoomEvent(m) == m.type \in {"user_joined", "message", "user_left"}

RoomEventIds(messages) ==
    LET events == SelectSeq(messages, IsRoomEvent) IN
    [i \in 1..Len(events) |-> events[i].id]

CommitLogged(op, ws, message, st) ==
    /\ Observe(op, ws, message, st)
    /\ inbox' = [h \in Handles |-> inbox[h] \o RoomEventIds(st.delivered[h])]
    /\ UNCHANGED <<chatState, inflight>>

OrderConnect ==
    /\ clock < OrderMaxEvents
    /\ \E h \in OrderHandles :
        /\ status[h] = "none"
        /\ \A g \in Handles : g < h => status[g] # "none"
        /\ CommitLogged("connect", h, GarbageText, handleWebSocketUpgrade(Begin, h, NoFailure))

OrderJoinChat ==
    /\ clock < OrderMaxEvents
    /\ \E h \in OrderHandles, u \in OrderUsernames :
        /\ status[h] = "open"
        /\ \E F \in FailureInputs(h, Len(messageHistory) + 2) :
            LET message == JsonText("join_chat", u, JsUndefined) IN
            CommitLogged("message", h, message, webSocketMessage(Begin, h, message, F))

OrderSendMessage ==
    /\ clock < OrderMaxEvents
    /\ \E h \in OrderHandles :
        /\ h \in DOMAIN sessions
        /\ \E F \in FailureInputs(h, 1) :
            LET message == JsonText("send_message", JsUndefined, JsString(<<"h">>)) IN
            CommitLogged("message", h, message, webSocketMessage(Begin, h, message, F))

OrderLeaveChat ==
    /\ clock < OrderMaxEvents
    /\ \E h \in OrderHandles :
        /\ h \in DOMAIN sessions
        /\ \E F \in FailureInputs(h, 0) :
            LET message == JsonText("leave_chat", JsUndefined, JsUndefined) IN
            CommitLogged("message", h, message, webSocketMessage(Begin, h, message, F))

OrderTransportClose ==
    /\ clock < OrderMaxEvents
    /\ \E h \in OrderHandles :
        /\ status[h] = "open"
        /\ \E F \in FailureInputs(h, 0) :
            CommitLogged("close", h, GarbageText, webSocketClose(Begin, h, F))

OrderNext ==
    \/ OrderConnect
    \/ OrderJoinChat
    \/ OrderSendMessage
    \/ OrderLeaveChat
    \/ OrderTransportClose
    \/ Evict

SpecOrder == Init /\ [][OrderNext]_vars

\* the position of the first receipt of event id in the receipts s
FirstAt(s, id) == CHOOSE i \in 1..Len(s) : s[i] = id /\ \A j \in 1..(i - 1) : s[j] # id

\* C16: of two room events a connection has received, the one whose trigger
\* was handled first was received first: its first receipt precedes the first
\* receipt of the other.  (A join replays the history, so a connection that
\* joins again is sent older events once more; the order is that of the
\* first receipts.)
C16_FirstReceiptsInOrder ==
    \A h \in Handles : \A i \in 1..Len(inbox[h]), j \in 1..Len(inbox[h]) :
        inbox[h][i] < inbox[h][j] =>
            FirstAt(inbox[h], inbox[h][i]) < FirstAt(inbox[h], inbox[h][j])

C16_Witness ==
    \E h \in Handles :
        /\ Len(inbox[h]) >= 4
        /\ \E i \in 1..Len(inbox[h]), j \in 1..Len(inbox[h]) :
            i < j /\ inbox[h][i] > inbox[h][j]

\* what the handler of the event just handled yields when no send throws
WithoutFailure ==
    IF ev'.op = "close" THEN webSocketClose(Begin, ev'.ws, NoFailure)
    ELSE webSocketMessage(Begin, ev'.ws, ev'.message, NoFailure)

IsProperPrefix(s, t) == Len(s) < Len(t) /\ \A i \in 1..Len(s) : s[i] = t[i]

\* C17: a send that fails inside broadcastMessage, sendError, the welcome or
\* the replay is not raised to the caller.  The handler ends as it does when
\* no send fails: the same outcome, the same history, the same attachments,
\* the same deliveries to every connection whose sends worked; the connections
\* whose send failed are out of the registry and have been sent less, and no
\* user_left is emitted for them.
C17_FailureSwallowed ==
    [][(ev'.op \in {"message", "close"} /\ ev'.failed # {}) =>
        \E ok \in {WithoutFailure} :
        /\ ~ev'.thrown
        /\ ev'.outcome = ok.outcome
        /\ ev'.bcast = ok.bcast
        /\ messageHistory' = ok.messageHistory
        /\ attachment' = ok.attachment
        /\ nextId' = ok.nextId
        /\ DOMAIN sessions' = DOMAIN ok.sessions \ ev'.failed
        /\ \A g \in DOMAIN sessions' : sessions'[g] = ok.sessions[g]
        /\ \A g \in Handles \ ev'.failed : delivered'[g] = ok.delivered[g]
        /\ \A g \in ev'.failed : IsProperPrefix(delivered'[g], ok.delivered[g])]_vars

C17_Witness ==
    /\ ev.op = "message"
    /\ ev.outcome = "joined"
    /\ ev.ws \in ev.failed
    /\ delivered[ev.ws] # <<>>
    /\ ev.ws \notin Joined
    /\ ~ev.thrown
    /\ Last(messageHistory) = ev.bcast[1]
    /\ \E g \in Joined : Last(delivered[g]) = ev.bcast[1]

\* C18: no handler of a transport event ends with an error that escapes it,
\* whatever the payload and whichever send fails.
C18_NoEscapingError == ~ev.thrown

\* C19: the text "ping" received from a connection, joined or not, is
\* answered with "pong" to that connection only (when that send does not
\* throw), and registry, attachments and history stay as they are.
C19_PingPong ==
    [][(ev'.op = "message" /\ ev'.message.kind = "ping") =>
        /\ ev'.outcome = "pong"
        /\ sessions' = sessions
        /\ attachment' = attachment
        /\ messageHistory' = messageHistory
        /\ status' = status
        /\ ev'.bcast = <<>>
        /\ delivered'[ev'.ws] = IF ev'.thrown THEN <<>> ELSE <<Pong>>
        /\ \A g \in Handles \ {ev'.ws} : delivered'[g] = <<>>]_vars

C19_Witness ==
    /\ ev.op = "message"
    /\ ev.message.kind = "ping"
    /\ delivered[ev.ws] = <<Pong>>
    /\ ev.ws \in Joined
    /\ \E g \in Handles : status[g] = "open" /\ g \notin Joined

\* a payload JSON.parse rejects, an object whose type is none of the three
\* intents, or a send_message of a joined handle whose content is not a string
Malformed ==
    /\ ev'.op = "message"
    /\ \/ ev'.message.kind = "garbage"
       \/ /\ ev'.message.kind = "json"
          /\ ev'.message.type \notin {"join_chat", "send_message", "leave_chat"}
       \/ /\ ev'.message.kind = "json"
          /\ ev'.message.type = "send_message"
          /\ ev'.message.content.t = "number"
          /\ ev'.ws \in Joined

\* C20 as stated: a payload that is not valid JSON, not a client intent or of
\* an unrecognized type produces one error message to the sender only and
\* leaves the registry and the history unchanged.
C20_Original ==
    [][Malformed => (RefusedWithError(ev'.ws) /\ sessions' = sessions)]_vars

\* C20 as amended: such a payload produces one error message to the sender
\* only, the history is unchanged, nothing is broadcast, and the registry is
\* unchanged unless the send of that error throws, in which case the sender's
\* own session (if it has one) is removed.
C20_MalformedRefused ==
    [][Malformed =>
        /\ ev'.outcome = IF ev'.message.kind = "json" /\ ev'.message.type # "send_message"
                         THEN "unknown_type" ELSE "invalid_format"
        /\ ~ev'.thrown
        /\ status' = status
        /\ RefusedWithError(ev'.ws)
        /\ RegistryAfterRefusal(ev'.ws)]_vars

C20_Witness ==
    /\ ev.op = "message"
    /\ ev.outcome = "invalid_format"
    /\ ev.message.kind = "garbage"
    /\ ev.ws \in Joined
    /\ Len(delivered[ev.ws]) = 1
    /\ IsErrorMessage(delivered[ev.ws][1])
    /\ delivered[ev.ws][1].content[2] = "Invalid message format"

-----------------------------------------------------------------------------
(* The walk-through of a fresh room: connection 1 joins as "alice",         *)
(* connection 2 joins as "bob", 1 sends "hello", 2 leaves (by leave_chat or *)
(* by closing).  No send throws.  Further connections may connect and send  *)
(* pings or unparseable text in between; they never join.                   *)

Alice == <<"a", "l", "i", "c", "e">>
Bob == <<"b", "o", "b">>
Hello == <<"h", "e", "l", "l", "o">>

ScenarioConnect ==
    \E h \in Handles :
        /\ h > 2 => clock < ScenarioMaxEvents
        /\ status[h] = "none"
        /\ \A g \in Handles : g < h => status[g] # "none"
        /\ CommitLogged("connect", h, GarbageText, handleWebSocketUpgrade(Begin, h, NoFailure))

ScenarioJoinAlice ==
    /\ status[1] = "open"
    /\ 1 \notin DOMAIN attachment
    /\ LET message == JsonText("join_chat", JsString(Alice), JsUndefined) IN
        CommitLogged("message", 1, message, webSocketMessage(Begin, 1, message, NoFailure))

ScenarioJoinBob ==
    /\ 1 \in DOMAIN sessions
    /\ status[2] = "open"
    /\ 2 \notin DOMAIN attachment
    /\ LET message == JsonText("join_chat", JsString(Bob), JsUndefined) IN
        CommitLogged("message", 2, message, webSocketMessage(Begin, 2, message, NoFailure))

ScenarioSendHello ==
    /\ 2 \in DOMAIN sessions
    /\ \A i \in 1..Len(messageHistory) : messageHistory[i].type # "message"
    /\ LET message == JsonText("send_message", JsUndefined, JsString(Hello)) IN
        CommitLogged("message", 1, message, webSocketMessage(Begin, 1, message, NoFailure))

ScenarioBobLeaves ==
    /\ 2 \in DOMAIN sessions
    /\ \E i \in 1..Len(messageHistory) : messageHistory[i].type = "message"
    /\ \/ LET message == JsonText("leave_chat", JsUndefined, JsUndefined) IN
            CommitLogged("message", 2, message, webSocketMessage(Begin, 2, message, NoFailure))
       \/ CommitLogged("close", 2, GarbageText, webSocketClose(Begin, 2, NoFailure))

ScenarioBystander ==
    /\ clock < ScenarioMaxEvents
    /\ \E h \in Handles \ {1, 2}, message \in {PingText, GarbageText} :
        /\ status[h] = "open"
        /\ CommitLogged("message", h, message, webSocketMessage(Begin, h, message, NoFailure))

ScenarioNext ==
    \/ ScenarioConnect
    \/ ScenarioJoinAlice
    \/ ScenarioJoinBob
    \/ ScenarioSendHello
    \/ ScenarioBobLeaves
    \/ ScenarioBystander

SpecScenario == Init /\ [][ScenarioNext]_vars

IsWelcome(m, name) ==
    m.type = "server" /\ m.content = <<"Welcome to the chat, ">> \o name \o <<"!">>
IsUserJoined(m, name) == m.type = "user_joined" /\ m.username = name
IsUserLeft(m, name) == m.type = "user_left" /\ m.username = name
IsChat(m, content, name) == m.type = "message" /\ m.content = content /\ m.username = name

IntentOf(h, type) ==
    ev'.op = "message" /\ ev'.ws = h /\ ev'.message.kind = "json" /\ ev'.message.type = type

\* C21: in a fresh room with no delivery failure, when A joins as "alice", B
\* joins as "bob", A sends "hello" and B leaves: A is sent a welcome and no
\* history entry; A and B are each sent a user_joined for "bob"; A and B are
\* each sent a message with content "hello" and username "alice"; A is sent a
\* user_left for "bob"; and the registry ends with A's session only.
C21_Scenario ==
    [][/\ IntentOf(1, "join_chat") =>
            /\ Len(delivered'[1]) = 2
            /\ IsWelcome(delivered'[1][1], Alice)
            /\ IsUserJoined(delivered'[1][2], Alice)
            /\ \A g \in Handles \ {1} : delivered'[g] = <<>>
       /\ IntentOf(2, "join_chat") =>
            /\ Len(delivered'[1]) = 1
            /\ IsUserJoined(delivered'[1][1], Bob)
            /\ Len(delivered'[2]) = 3
            /\ IsWelcome(delivered'[2][1], Bob)
            /\ delivered'[2][2] = messageHistory[1]
            /\ IsUserJoined(delivered'[2][2], Alice)
            /\ delivered'[2][3] = delivered'[1][1]
            /\ \A g \in Handles \ {1, 2} : delivered'[g] = <<>>
       /\ IntentOf(1, "send_message") =>
            /\ Len(delivered'[1]) = 1
            /\ IsChat(delivered'[1][1], Hello, Alice)
            /\ delivered'[2] = delivered'[1]
            /\ \A g \in Handles \ {1, 2} : delivered'[g] = <<>>
       /\ (IntentOf(2, "leave_chat") \/ (ev'.op = "close" /\ ev'.ws = 2)) =>
            /\ Len(delivered'[1]) = 1
            /\ IsUserLeft(delivered'[1][1], Bob)
            /\ \A g \in Handles \ {1} : delivered'[g] = <<>>
            /\ DOMAIN sessions' = {1}
            /\ sessions'[1].username = Alice
            /\ Len(inbox'[1]) = 4
            /\ Len(inbox'[2]) = 3]_vars

C21_Witness ==
    /\ ev.op = "close"
    /\ ev.ws = 2
    /\ DOMAIN sessions = {1}
    /\ Len(messageHistory) = 4
    /\ IsUserLeft(messageHistory[4], Bob)
    /\ IsChat(messageHistory[3], Hello, Alice)
    /\ delivered[1] = <<messageHistory[4]>>
    /\ inbox[1] = [i \in 1..4 |-> messageHistory[i].id]
    /\ status[3] = "open"

-----------------------------------------------------------------------------
(* Two rooms: CFWorker routes an upgrade request and a statistics request   *)
(* by the room parameter of its URL to the ChatRoom instance of that room.  *)
(* The variables sessions, messageHistory, attachment and status are the    *)
(* fields of one instance, peer holds those of a second one.  The events of *)
(* a connection go to the instance that accepted it.                        *)

Default == <<"d", "e", "f", "a", "u", "l", "t">>
RoomTwo == <<"r", "2">>

\* url.searchParams.get('room'): absent, empty, or a name
RoomParams == {JsUndefined, JsString(<<>>), JsString(Default), JsString(RoomTwo)}

\* url.searchParams.get('room') || 'default'
RoomIdOf(param) == IF Falsy(param) THEN Default ELSE param.s

\* faulty variant: every name gives the id of the default room
idFromName_Fixed(roomId) == [name |-> Default]

\* env.CHAT_ROOM.idFromName(roomId): equal names give equal ids, different
\* names different ids
idFromName(roomId) == [name |-> roomId]

\* env.CHAT_ROOM.get(id): the instance of that id (1: the one of the default
\* room, 2: the other)
getChatRoom(roomId) == IF idFromName(roomId) = [name |-> Default] THEN 1 ELSE 2

Instance(i) ==
    IF i = 1
    THEN [sessions |-> sessions, messageHistory |-> messageHistory,
          attachment |-> attachment, status |-> status]
    ELSE peer

InstanceBegin(i) ==
    [Begin EXCEPT !.sessions = Instance(i).sessions,
                  !.messageHistory = Instance(i).messageHistory,
                  !.attachment = Instance(i).attachment,
                  !.status = Instance(i).status]

\* the instance that accepted the transport of handle h (0: none has)
AcceptedBy(h) ==
    IF status[h] # "none" THEN 1 ELSE IF peer.status[h] # "none" THEN 2 ELSE 0

\* faulty variant: the attachments are counted, not the registry entries
Stats_CountsAttachments(instance) ==
    [connectedUsers |-> Cardinality(DOMAIN instance.attachment),
     messageHistory |-> Len(instance.messageHistory)]

\* ChatRoom.fetch, path /stats
Stats(instance) ==
    [connectedUsers |-> Cardinality(DOMAIN instance.sessions),
     messageHistory |-> Len(instance.messageHistory)]

\* the result st of a handler of instance i becomes the state of that instance
RoomsCommit(i, op, ws, message, st, roomId) ==
    /\ IF i = 1
       THEN /\ sessions' = st.sessions
            /\ messageHistory' = st.messageHistory
            /\ attachment' = st.attachment
            /\ status' = st.status
            /\ peer' = peer
       ELSE /\ peer' = [sessions |-> st.sessions, messageHistory |-> st.messageHistory,
                        attachment |-> st.attachment, status |-> st.status]
            /\ UNCHANGED <<sessions, messageHistory, attachment, status>>
    /\ nextId' = st.nextId
    /\ delivered' = st.delivered
    /\ ev' = [op |-> op, ws |-> ws, message |-> message, outcome |-> st.outcome,
              joinedBefore |-> DOMAIN Instance(i).sessions, bcast |-> st.bcast,
              targets |-> st.targets, failed |-> st.failed,
              thrown |-> st.thrown, closeCode |-> st.closeCode,
              room |-> roomId, response |-> <<>>]
    /\ clock' = clock + 1
    /\ UNCHANGED <<inbox, rate, chatState, inflight, calls>>

\* no send throws, or every send to one handle does
RoomsFailureInputs ==
    {NoFailure} \cup {[h \in Handles |-> IF h = x THEN 1 ELSE 0] : x \in Handles}

\* CFWorker.fetch, path /websocket with an Upgrade header
RoomsConnect ==
    /\ clock < RoomsMaxEvents
    /\ \E h \in Handles, param \in RoomParams :
        /\ AcceptedBy(h) = 0
        /\ \A g \in Handles : g < h => AcceptedBy(g) # 0
        /\ LET roomId == RoomIdOf(param)
               i == getChatRoom(roomId)
           IN  /\ RoomsCommit(i, "connect", h, GarbageText,
                              handleWebSocketUpgrade(InstanceBegin(i), h, NoFailure), roomId)
               /\ room' = [room EXCEPT ![h] = roomId]

RoomsJoinChat ==
    /\ clock < RoomsMaxEvents
    /\ \E h \in Handles, u \in OrderUsernames, F \in RoomsFailureInputs :
        LET i == AcceptedBy(h)
            message == JsonText("join_chat", u, JsUndefined)
        IN  /\ i # 0
            /\ Instance(i).status[h] = "open"
            /\ RoomsCommit(i, "message", h, message,
                           webSocketMessage(InstanceBegin(i), h, message, F), room[h])
            /\ room' = room

RoomsSendMessage ==
    /\ clock < RoomsMaxEvents
    /\ \E h \in Handles, F \in RoomsFailureInputs :
        LET i == AcceptedBy(h)
            message == JsonText("send_message", JsUndefined, JsString(<<"h">>))
        IN  /\ i # 0
            /\ Instance(i).status[h] = "open"
            /\ RoomsCommit(i, "message", h, message,
                           webSocketMessage(InstanceBegin(i), h, message, F), room[h])
            /\ room' = room

RoomsTransportClose ==
    /\ clock < RoomsMaxEvents
    /\ \E h \in Handles, F \in RoomsFailureInputs :
        LET i == AcceptedBy(h) IN
        /\ i # 0
        /\ Instance(i).status[h] = "open"
        /\ RoomsCommit(i, "close", h, GarbageText,
                       webSocketClose(InstanceBegin(i), h, F), room[h])
        /\ room' = room

\* CFWorker.fetch, path /chat-stats
RoomsStats ==
    \E param \in RoomParams :
        LET roomId == RoomIdOf(param)
            i == getChatRoom(roomId)
        IN  /\ ev' = [NoEvent EXCEPT !.op = "stats", !.room = roomId,
                                     !.response = <<Stats(Instance(i))>>]
            /\ delivered' = [h \in Handles |-> <<>>]
            /\ UNCHANGED <<sessions, messageHistory, attachment, status, nextId, clock,
                           inbox, peer, room, rate, chatState, inflight, calls>>

RoomsNext ==
    \/ RoomsConnect
    \/ RoomsJoinChat
    \/ RoomsSendMessage
    \/ RoomsTransportClose
    \/ RoomsStats

SpecRooms == Init /\ [][RoomsNext]_vars

\* the registry, the history and the fields of the coordinator of room r
SessionsOf(r) == IF r = Default THEN sessions ELSE peer.sessions
HistoryOf(r) == IF r = Default THEN messageHistory ELSE peer.messageHistory
FieldsOf(r) ==
    IF r = Default THEN [sessions |-> sessions, messageHistory |-> messageHistory,
                         attachment |-> attachment, status |-> status]
    ELSE peer

\* C22: rooms are isolated.  An event of a connection of room r (its upgrade
\* request, a message, its closure) is handled by the coordinator of r: the
\* fields of the coordinator of the other room do not change, nothing is sent
\* to a connection of the other room, and the registry of r holds connections
\* of r only.  A join under a valid name that no session of r holds is
\* accepted whether or not the other room has a session of that name.
C22_RoomsIsolated ==
    [][ev'.op \in {"connect", "message", "close"} =>
        LET r == ev'.room IN
        /\ r = room'[ev'.ws]
        /\ IF r = Default THEN peer' = peer
           ELSE UNCHANGED <<sessions, messageHistory, attachment, status>>
        /\ \A g \in Handles : delivered'[g] # <<>> => room'[g] = r
        /\ \A g \in (IF r = Default THEN DOMAIN sessions' ELSE DOMAIN peer'.sessions) :
                room'[g] = r
        /\ (/\ ev'.op = "message"
            /\ ev'.message.type = "join_chat"
            /\ \A g \in DOMAIN SessionsOf(r) :
                    SessionsOf(r)[g].username # ev'.message.username.s)
            => ev'.outcome = "joined"]_vars

C22_Witness ==
    /\ ev.op = "message"
    /\ ev.outcome = "joined"
    /\ ev.room = RoomTwo
    /\ ev.ws \in DOMAIN peer.sessions
    /\ \E h \in DOMAIN sessions :
        /\ room[h] = Default
        /\ sessions[h].username = peer.sessions[ev.ws].username
        /\ delivered[h] = <<>>
    /\ delivered[ev.ws] # <<>>

\* C23: the statistics read answers with the number of entries of the
\* registry and the length of the history of the room asked for, as they are
\* at that moment, and changes neither of them (nor anything else of either
\* coordinator).
C23_StatsReadOnly ==
    [][ev'.op = "stats" =>
        /\ ev'.response =
            <<[connectedUsers |-> Cardinality(DOMAIN SessionsOf(ev'.room)),
               messageHistory |-> Len(HistoryOf(ev'.room))]>>
        /\ UNCHANGED <<sessions, messageHistory, attachment, status, peer>>]_vars

C23_Witness ==
    /\ ev.op = "stats"
    /\ ev.response[1].connectedUsers >= 1
    /\ ev.response[1].connectedUsers < Cardinality(DOMAIN FieldsOf(ev.room).attachment)
    /\ ev.response[1].messageHistory >= 2
    /\ ev.room = RoomTwo

-----------------------------------------------------------------------------
(* The rate-limit wrapper: checkRateLimit(limiter, key) calls               *)
(* limiter.limit({ key }) once and turns what comes back into the success   *)
(* or the typed failure of an Effect.                                       *)

RateKeys == {"user-1", "user-2", "/chat"}

\* what limiter.limit({ key }) does: it resolves with an outcome, rejects with
\* an Error or with another value, or throws before returning a promise
LimiterOutcomes ==
    {[kind |-> "resolved", success |-> TRUE, message |-> ""],
     [kind |-> "resolved", success |-> FALSE, message |-> ""],
     [kind |-> "rejected", success |-> FALSE, message |-> "binding not available"],
     [kind |-> "rejected", success |-> FALSE, message |-> ""],
     [kind |-> "threw", success |-> FALSE, message |-> "limiter.limit is not a function"]}

\* error instanceof Error ? error.message : 'Unknown error' ("" stands for a
\* rejection with a value that is not an Error)
ReasonOf(outcome) == IF outcome.message # "" THEN outcome.message ELSE "Unknown error"

\* faulty variant: the outcome is returned whatever its success member says
checkRateLimit_IgnoresSuccess(outcome, key) ==
    IF outcome.kind # "resolved"
    THEN [tag |-> "Failure", error |-> "RateLimitCheckError", key |-> key,
          reason |-> ReasonOf(outcome), value |-> <<>>]
    ELSE [tag |-> "Success", error |-> "", key |-> "", reason |-> "",
          value |-> <<[success |-> outcome.success]>>]

checkRateLimit(outcome, key) ==
    IF outcome.kind # "resolved"
    THEN [tag |-> "Failure", error |-> "RateLimitCheckError", key |-> key,
          reason |-> ReasonOf(outcome), value |-> <<>>]
    ELSE IF ~outcome.success
    THEN [tag |-> "Failure", error |-> "RateLimitExceeded", key |-> key,
          reason |-> "", value |-> <<>>]
    ELSE [tag |-> "Success", error |-> "", key |-> "", reason |-> "",
          value |-> <<[success |-> outcome.success]>>]

RateCall ==
    /\ Len(rate) < RateMaxCalls
    /\ \E key \in RateKeys, outcome \in LimiterOutcomes :
        rate' = Append(rate, [key |-> key, outcome |-> outcome,
                              result |-> checkRateLimit(outcome, key)])
    /\ UNCHANGED <<sessions, messageHistory, attachment, status, nextId, clock,
                   delivered, inbox, peer, room, chatState, inflight, calls, ev>>

RateNext == RateCall

SpecRate == Init /\ [][RateNext]_vars

\* C24: checkRateLimit succeeds, with the limiter's outcome, exactly when
\* limiter.limit resolves with success true; it fails with
\* RateLimitExceededError carrying the key when it resolves with success
\* false; it fails with RateLimitCheckError carrying the key when the limiter
\* call rejects (or throws); there is no other outcome.
C24_RateLimitOutcomes ==
    \A i \in 1..Len(rate) :
        LET call == rate[i] IN
        /\ call.result.tag \in {"Success", "Failure"}
        /\ call.result.tag = "Success" <=>
                (call.outcome.kind = "resolved" /\ call.outcome.success)
        /\ call.result.tag = "Success" =>
                call.result.value = <<[success |-> TRUE]>>
        /\ (call.outcome.kind = "resolved" /\ ~call.outcome.success) =>
                /\ call.result.tag = "Failure"
                /\ call.result.error = "RateLimitExceeded"
                /\ call.result.key = call.key
        /\ call.outcome.kind \in {"rejected", "threw"} =>
                /\ call.result.tag = "Failure"
                /\ call.result.error = "RateLimitCheckError"
                /\ call.result.key = call.key

C24_Witness ==
    /\ Len(rate) = 2
    /\ rate[1].result.error = "RateLimitExceeded"
    /\ rate[2].result.error = "RateLimitCheckError"
    /\ rate[2].result.reason = "Unknown error"

C26_ReplayIsRecent ==
    [][(ev'.op = "message" /\ ev'.outcome = "joined") =>
        LET got == delivered'[ev'.ws]
            before == Len(messageHistory)
            n == IF before < 10 THEN before ELSE 10
        IN  /\ IF ev'.ws \in ev'.failed THEN Len(got) <= n + 1 ELSE Len(got) = n + 2
            /\ \A i \in 1..n :
                i + 1 <= Len(got) => got[i + 1] = messageHistory[before - n + i]
            /\ \A i \in 1..(n - 1) :
                messageHistory[before - n + i].id < messageHistory[before - n + i + 1].id
            /\ messageHistory' = Appended(messageHistory, ev'.bcast[1])
            /\ ev'.bcast[1].type = "user_joined"]_vars

C26_Witness ==
    /\ ev.op = "message"
    /\ ev.outcome = "joined"
    /\ ev.failed = {}
    /\ Len(messageHistory) > 12
    /\ Len(messageHistory) < MAX_HISTORY
    /\ Len(delivered[ev.ws]) = 12
    /\ delivered[ev.ws][2] = messageHistory[Len(messageHistory) - 10]
    /\ delivered[ev.ws][11] = messageHistory[Len(messageHistory) - 1]
    /\ delivered[ev.ws][12] = Last(messageHistory)

-----------------------------------------------------------------------------
(* Payloads with members of the client's own: two connections join and send *)
(* messages whose payload may also name a username, an id and a timestamp.  *)
(* In an event either no send throws or every send to some handles does.    *)

\* a send_message payload with the members a client may add
SendPayloads ==
    {[JsonText("send_message", u, c) EXCEPT !.id = i, !.timestamp = t] :
        u \in {JsUndefined, JsString(<<"a">>), JsString(<<"z">>)},
        c \in {JsString(<<"h">>), JsString(<<" ">>)},
        i \in {JsUndefined, JsNumber},
        t \in {JsUndefined, JsNumber}}

PayloadFailureInputs ==
    {[h \in Handles |-> IF h \in B THEN 1 ELSE 0] : B \in SUBSET OrderHandles}

PayloadConnect ==
    /\ clock < PayloadMaxEvents
    /\ \E h \in OrderHandles :
        /\ status[h] = "none"
        /\ \A g \in Handles : g < h => status[g] # "none"
        /\ Commit("connect", h, GarbageText, handleWebSocketUpgrade(Begin, h, NoFailure))

PayloadJoinChat ==
    /\ clock < PayloadMaxEvents
    /\ \E h \in OrderHandles, u \in OrderUsernames :
        /\ status[h] = "open"
        /\ h \notin DOMAIN attachment
        /\ LET message == JsonText("join_chat", u, JsUndefined) IN
            Commit("message", h, message, webSocketMessage(Begin, h, message, NoFailure))

PayloadSendMessage ==
    /\ clock < PayloadMaxEvents
    /\ \E h \in OrderHandles, message \in SendPayloads, F \in PayloadFailureInputs :
        /\ status[h] = "open"
        /\ Commit("message", h, message, webSocketMessage(Begin, h, message, F))

PayloadNext ==
    \/ PayloadConnect
    \/ PayloadJoinChat
    \/ PayloadSendMessage

SpecPayload == Init /\ [][PayloadNext]_vars

\* the failure input of the event just handled, as far as it had an effect
FailureOf == [h \in Handles |-> IF h \in ev'.failed THEN 1 ELSE 0]

\* C27: the id, the timestamp and the username of an emitted message are the
\* coordinator's.  A send_message ends exactly as the same send_message
\* without username, id and timestamp members does (same registry, history,
\* attachments, deliveries and emitted event), and a message event carries
\* the username of the sender's session, the coordinator's next id and the
\* coordinator's clock.
C27_ClientFieldsIgnored ==
    [][(ev'.op = "message" /\ ev'.message.kind = "json"
            /\ ev'.message.type = "send_message") =>
        /\ \E plain \in {webSocketMessage(Begin, ev'.ws,
                            JsonText("send_message", JsUndefined, ev'.message.content),
                            FailureOf)} :
            /\ sessions' = plain.sessions
            /\ messageHistory' = plain.messageHistory
            /\ attachment' = plain.attachment
            /\ delivered' = plain.delivered
            /\ nextId' = plain.nextId
            /\ ev'.bcast = plain.bcast
            /\ ev'.outcome = plain.outcome
        /\ ev'.outcome = "sent" =>
            /\ ev'.bcast[1].type = "message"
            /\ ev'.bcast[1].username = sessions[ev'.ws].username
            /\ ev'.bcast[1].id = nextId
            /\ ev'.bcast[1].timestamp = clock]_vars

C27_Witness ==
    /\ ev.op = "message"
    /\ ev.outcome = "sent"
    /\ ev.message.username = JsString(<<"z">>)
    /\ ev.message.id = JsNumber
    /\ ev.message.timestamp = JsNumber
    /\ ev.ws \in Joined
    /\ ev.bcast[1].username = sessions[ev.ws].username
    /\ Last(messageHistory) = ev.bcast[1]
    /\ \E g \in Joined \ {ev.ws} : delivered[g] = ev.bcast

\* C28: a server message (an error, a welcome, the greeting of a new
\* connection) is sent only to the connection whose request caused it: no
\* other connection is sent one, none is broadcast, and none is in the
\* history, which holds only message, user_joined and user_left events.
C28_ServerMessagesDirect ==
    /\ \A i \in 1..Len(messageHistory) :
        messageHistory[i].type \in {"message", "user_joined", "user_left"}
    /\ \A g \in Handles \ {ev.ws} : \A i \in 1..Len(delivered[g]) :
        delivered[g][i].type # "server"
    /\ ev.bcast # <<>> => ev.bcast[1].type # "server"

C28_Witness ==
    /\ ev.op = "message"
    /\ ev.outcome = "duplicate"
    /\ Len(delivered[ev.ws]) = 1
    /\ IsErrorMessage(delivered[ev.ws][1])
    /\ \E g \in Joined \ {ev.ws} : delivered[g] = <<>>
    /\ messageHistory # <<>>

\* C29: a leave_chat or a close event of a handle that never joined (no
\* join of it was ever accepted) leaves the registry and the history
\* unchanged and no user_left is emitted: nothing is appended, nothing is
\* broadcast, nothing is sent to anyone.
C29_LeaveWithoutJoin ==
    [][(ClosureSignal /\ ev'.ws \notin DOMAIN attachment) =>
        /\ sessions' = sessions
        /\ messageHistory' = messageHistory
        /\ ev'.bcast = <<>>
        /\ ev'.targets = {}
        /\ \A g \in Handles : delivered'[g] = <<>>
        /\ ~ev'.thrown]_vars

C29_Witness ==
    /\ ev.op = "message"
    /\ ev.message.type = "leave_chat"
    /\ ev.ws \notin DOMAIN attachment
    /\ status[ev.ws] = "closed"
    /\ Joined # {}
    /\ messageHistory # <<>>
    /\ \A g \in Handles : delivered[g] = <<>>

\* C30: every loss of a session is announced.  Whenever an event removes a
\* handle's session from the registry or replaces it by another, a user_left
\* event with the username of the lost session is appended to the history in
\* that event and delivered to every connection joined after it.
C30_LossAnnounced ==
    [][\A h \in Joined :
        (h \notin DOMAIN sessions' \/ sessions'[h] # sessions[h]) =>
            \E i \in 1..Len(messageHistory') :
                /\ messageHistory'[i].type = "user_left"
                /\ messageHistory'[i].username = sessions[h].username
                /\ messageHistory'[i].id >= nextId
                /\ \A g \in DOMAIN sessions' \ {h} :
                    \E k \in 1..Len(delivered'[g]) : delivered'[g][k] = messageHistory'[i]]_vars

\* C31: an announced participant is joined.  After every join event that
\* appended and broadcast a user_joined event for a username, the joining
\* handle has a session with that username, also when a send to the joiner
\* threw during the join.
C31_AnnouncedIsJoined ==
    (ev.op = "message" /\ ev.outcome = "joined" /\ ev.bcast # <<>>) =>
        /\ ev.bcast[1].type = "user_joined"
        /\ ev.ws \in Joined
        /\ sessions[ev.ws].username = ev.bcast[1].username

\* C32: rehydration restores exactly the membership before the eviction.
\* The registry the constructor builds is the registry as it was immediately
\* before the eviction, restricted to the handles still open: a handle whose
\* session had been removed before the eviction has none afterwards.
C32_RehydrationExact ==
    [][ev'.op = "evict" =>
        /\ DOMAIN sessions' = {h \in Joined : status[h] = "open"}
        /\ \A h \in DOMAIN sessions' : h \in Joined /\ sessions'[h] = sessions[h]]_vars

\* C33: no connection is delivered two messages with the same id.  Over the
\* whole run a room event (user_joined, message, user_left) is sent to a
\* given connection at most once, live or as part of a replay.
C33_DeliveredOnce ==
    \A h \in Handles : \A i \in 1..Len(inbox[h]), j \in 1..Len(inbox[h]) :
        i # j => inbox[h][i] # inbox[h][j]

\* C34: a send_message from a handle that has no session is rejected.  One
\* error message ("Not authenticated. Please join the chat first.") is sent
\* to that handle and to no other, no message event is created, nothing is
\* broadcast, and the registry, the history and the attachments are unchanged.
C34_SendWithoutSession ==
    [][(/\ ev'.op = "message"
        /\ ev'.message.kind = "json"
        /\ ev'.message.type = "send_message"
        /\ ev'.ws \notin Joined) =>
        LET h == ev'.ws IN
        /\ ev'.outcome = "not_authenticated"
        /\ sessions' = sessions
        /\ messageHistory' = messageHistory
        /\ attachment' = attachment
        /\ status' = status
        /\ nextId' = nextId + 1
        /\ ev'.bcast = <<>>
        /\ ev'.targets = {}
        /\ ~ev'.thrown
        /\ ev'.failed \subseteq {h}
        /\ IF h \in ev'.failed
           THEN delivered'[h] = <<>>
           ELSE delivered'[h] =
                    <<ServerMessage(nextId,
                                    <<"Error: ", "Not authenticated. Please join the chat first.">>,
                                    clock)>>
        /\ \A g \in Handles \ {h} : delivered'[g] = <<>>]_vars

C34_Witness ==
    /\ ev.op = "message"
    /\ ev.message.type = "send_message"
    /\ ev.message.content = JsString(<<"h">>)
    /\ ev.outcome = "not_authenticated"
    /\ ev.ws \notin ev.joinedBefore
    /\ ev.ws \notin Joined
    /\ Joined # {}
    /\ messageHistory # <<>>
    /\ Len(delivered[ev.ws]) = 1
    /\ IsErrorMessage(delivered[ev.ws][1])

-----------------------------------------------------------------------------
(* Names with whitespace: two connections join, also repeatedly, under       *)
(* names padded on either side or on both, with a blank inside, blank or     *)
(* empty; they talk, joined or not, their transports close, the coordinator  *)
(* is evicted, and in an event every send to some handles may throw.         *)

NamesUsernames ==
    {JsString(<<"a">>), JsString(<<" ", "a">>), JsString(<<"a", " ">>),
     JsString(<<" ", "a", " ">>), JsString(<<"a", " ", "b">>),
     JsString(<<" ", " ">>), JsString(<<>>)}

NamesConnect ==
    /\ clock < NamesMaxEvents
    /\ \E h \in OrderHandles :
        /\ status[h] = "none"
        /\ \A g \in Handles : g < h => status[g] # "none"
        /\ Commit("connect", h, GarbageText, handleWebSocketUpgrade(Begin, h, NoFailure))

NamesJoinChat ==
    /\ clock < NamesMaxEvents
    /\ \E h \in OrderHandles, u \in NamesUsernames, F \in PayloadFailureInputs :
        /\ status[h] = "open"
        /\ LET message == JsonText("join_chat", u, JsUndefined) IN
            Commit("message", h, message, webSocketMessage(Begin, h, message, F))

NamesSendMessage ==
    /\ clock < NamesMaxEvents
    /\ \E h \in OrderHandles, F \in PayloadFailureInputs :
        /\ status[h] = "open"
        /\ LET message == JsonText("send_message", JsUndefined, JsString(<<"h">>)) IN
            Commit("message", h, message, webSocketMessage(Begin, h, message, F))

NamesTransportClose ==
    /\ clock < NamesMaxEvents
    /\ \E h \in OrderHandles, F \in PayloadFailureInputs :
        /\ status[h] = "open"
        /\ Commit("close", h, GarbageText, webSocketClose(Begin, h, F))

NamesNext ==
    \/ NamesConnect
    \/ NamesJoinChat
    \/ NamesSendMessage
    \/ NamesTransportClose
    \/ Evict

SpecNames == Init /\ [][NamesNext]_vars

\* a name that is not empty and neither starts nor ends with whitespace
IsTrimmedName(s) == Len(s) > 0 /\ ~IsSpace(s[1]) /\ ~IsSpace(s[Len(s)])

\* C35: in every reachable state the username of every session in the
\* registry and of every attachment is non-empty and has no leading or
\* trailing whitespace, and so is the username of every user_joined,
\* user_left and message event (in the history, broadcast or delivered).
C35_UsernamesTrimmed ==
    /\ \A h \in Joined : IsTrimmedName(sessions[h].username)
    /\ \A h \in DOMAIN attachment : IsTrimmedName(attachment[h].username)
    /\ \A i \in 1..Len(messageHistory) :
        IsRoomEvent(messageHistory[i]) /\ IsTrimmedName(messageHistory[i].username)
    /\ \A i \in 1..Len(ev.bcast) :
        IsRoomEvent(ev.bcast[i]) /\ IsTrimmedName(ev.bcast[i].username)
    /\ \A h \in Handles : \A i \in 1..Len(delivered[h]) :
        (delivered[h][i] # Pong /\ IsRoomEvent(delivered[h][i])) =>
            IsTrimmedName(delivered[h][i].username)

C35_Witness ==
    /\ ev.op = "message"
    /\ ev.outcome = "joined"
    /\ ev.message.username = JsString(<<" ", "a", " ">>)
    /\ ev.ws \in Joined
    /\ sessions[ev.ws].username = <<"a">>
    /\ attachment[ev.ws].username = <<"a">>
    /\ Last(messageHistory).username = <<"a">>
    /\ \E i \in 1..Len(messageHistory) : messageHistory[i].type = "message"
    /\ \E h \in Joined \ {ev.ws} : sessions[h].username = <<"a", " ", "b">>

-----------------------------------------------------------------------------
(* The chat page: each page keeps a chatState (its socket, isConnected and   *)
(* isJoined) and talks to the coordinator through ChatEffects.  What a page  *)
(* sends is in flight until the coordinator handles it; when a transport     *)
(* closes, the page's stream ends at once and the coordinator's close event  *)
(* is in flight behind the frames sent before.  No ws.send() of the          *)
(* coordinator throws.                                                       *)

\* the event of a closed transport on its way to the coordinator
CloseEvent ==
    [kind |-> "close", type |-> "", username |-> JsUndefined, content |-> JsUndefined,
     id |-> JsUndefined, timestamp |-> JsUndefined]

\* /^[a-zA-Z0-9_-]+$/
IsNameChar(c) ==
    c \in {"a", "b", "c", "d", "e", "f", "g", "h", "i", "j", "k", "l", "m",
           "n", "o", "p", "q", "r", "s", "t", "u", "v", "w", "x", "y", "z",
           "A", "B", "C", "D", "E", "F", "G", "H", "I", "J", "K", "L", "M",
           "N", "O", "P", "Q", "R", "S", "T", "U", "V", "W", "X", "Y", "Z",
           "0", "1", "2", "3", "4", "5", "6", "7", "8", "9", "_", "-"}

\* ChatEffects.validateUsername: the trimmed name, or a ValidationError
validateUsername(username) ==
    IF Falsy(username) \/ username.t # "string"
    THEN [ok |-> FALSE, value |-> <<>>]
    ELSE LET trimmed == Trim(username.s) IN
         IF Len(trimmed) = 0 THEN [ok |-> FALSE, value |-> <<>>]
         ELSE IF Len(trimmed) > MAX_USERNAME_LENGTH THEN [ok |-> FALSE, value |-> <<>>]
         ELSE IF \E i \in 1..Len(trimmed) : ~IsNameChar(trimmed[i])
         THEN [ok |-> FALSE, value |-> <<>>]
         ELSE [ok |-> TRUE, value |-> trimmed]

\* ChatEffects.sendMessage: the frames handed to socket.send(), none if the
\* socket is not open (a MessageError)
ChatEffects_sendMessage(readyState, message) ==
    IF readyState # "open" THEN [ok |-> FALSE, sent |-> <<>>]
    ELSE [ok |-> TRUE, sent |-> <<message>>]

\* ChatEffects.joinChat
ChatEffects_joinChat(readyState, username) ==
    LET validUsername == validateUsername(username) IN
    IF ~validUsername.ok THEN [ok |-> FALSE, sent |-> <<>>]
    ELSE ChatEffects_sendMessage(readyState,
                                 JsonText("join_chat", JsString(validUsername.value),
                                          JsUndefined))

\* connectToChat of the page, when the connection is established as socket
connectToChat(cs, socket) == [cs EXCEPT !.socket = socket, !.isConnected = TRUE]

\* joinChat of the page: isJoined is set when the join_chat frame was sent
joinChat(cs, readyState, username) ==
    IF cs.socket = 0 \/ Len(Trim(username)) = 0
    THEN [chatState |-> cs, sent |-> <<>>]
    ELSE LET joinResult == ChatEffects_joinChat(readyState, JsString(Trim(username))) IN
         IF joinResult.ok
         THEN [chatState |-> [cs EXCEPT !.isJoined = TRUE], sent |-> joinResult.sent]
         ELSE [chatState |-> cs, sent |-> <<>>]

\* the message stream of the page ends with 'WebSocket connection closed'
streamClosed(cs) == [cs EXCEPT !.isConnected = FALSE, !.socket = 0]

PageUsernames ==
    {<<"a">>, <<" ", "a", " ">>, <<"b">>, <<"a", " ", "b">>, <<" ">>}

RECURSIVE InFlightUpTo(_)
InFlightUpTo(h) == IF h = 0 THEN 0 ELSE Len(inflight[h]) + InFlightUpTo(h - 1)

\* the events the coordinator has handled or has still to handle
Budget == clock + InFlightUpTo(MaxHandles)

PageCommit(op, ws, message, st) ==
    /\ Observe(op, ws, message, st)
    /\ inbox' = inbox

\* a page connects: the coordinator accepts a new transport
PageConnect ==
    /\ Budget < PageMaxEvents
    /\ \E p \in Pages, h \in Handles :
        /\ ~chatState[p].isConnected
        /\ status[h] = "none"
        /\ \A g \in Handles : g < h => status[g] # "none"
        /\ PageCommit("connect", h, GarbageText, handleWebSocketUpgrade(Begin, h, NoFailure))
        /\ chatState' = [chatState EXCEPT ![p] = connectToChat(@, h)]
        /\ inflight' = inflight

\* the user of a connected page that does not take itself for joined asks to join
PageJoinChat ==
    /\ Budget < PageMaxEvents
    /\ \E p \in Pages, u \in PageUsernames :
        /\ chatState[p].isConnected
        /\ ~chatState[p].isJoined
        /\ LET h == chatState[p].socket
               done == joinChat(chatState[p], status[h], u)
           IN  /\ chatState' = [chatState EXCEPT ![p] = done.chatState]
               /\ inflight' = [inflight EXCEPT ![h] = @ \o done.sent]
        /\ UNCHANGED <<sessions, messageHistory, attachment, status, nextId, clock,
                       delivered, inbox, peer, room, rate, calls, ev>>

\* the user of a page that takes itself for joined sends a message
PageSendMessage ==
    /\ Budget < PageMaxEvents
    /\ \E p \in Pages :
        /\ chatState[p].isConnected
        /\ chatState[p].isJoined
        /\ LET h == chatState[p].socket
               sendResult == ChatEffects_sendMessage(
                                 status[h],
                                 JsonText("send_message", JsUndefined, JsString(<<"h">>)))
           IN  inflight' = [inflight EXCEPT ![h] = @ \o sendResult.sent]
        /\ UNCHANGED <<sessions, messageHistory, attachment, status, nextId, clock,
                       delivered, inbox, peer, room, rate, chatState, calls, ev>>

\* the transport of a page closes
PageTransportCloses ==
    /\ Budget < PageMaxEvents
    /\ \E p \in Pages :
        /\ chatState[p].socket # 0
        /\ inflight' = [inflight EXCEPT ![chatState[p].socket] = Append(@, CloseEvent)]
        /\ chatState' = [chatState EXCEPT ![p] = streamClosed(@)]
        /\ UNCHANGED <<sessions, messageHistory, attachment, status, nextId, clock,
                       delivered, inbox, peer, room, rate, calls, ev>>

\* the coordinator handles the next event of a transport
PageCoordinatorHandles ==
    \E h \in Handles :
        /\ inflight[h] # <<>>
        /\ LET message == Head(inflight[h]) IN
           IF message.kind = "close"
           THEN PageCommit("close", h, GarbageText, webSocketClose(Begin, h, NoFailure))
           ELSE PageCommit("message", h, message,
                           webSocketMessage(Begin, h, message, NoFailure))
        /\ inflight' = [inflight EXCEPT ![h] = Tail(@)]
        /\ chatState' = chatState

PageNext ==
    \/ PageConnect
    \/ PageJoinChat
    \/ PageSendMessage
    \/ PageTransportCloses
    \/ PageCoordinatorHandles

SpecPage == Init /\ [][PageNext]_vars

\* nothing is on its way to the coordinator
Quiet == \A h \in Handles : inflight[h] = <<>>

\* C36: page and coordinator agree on membership.  Whenever nothing is in
\* flight, a page whose isJoined is true has a socket and the coordinator
\* holds a session for that socket; in particular not after a join the
\* coordinator refused, nor after the socket closed and the page connected
\* again.
C36_MembershipAgreed ==
    Quiet =>
        \A p \in Pages :
            chatState[p].isJoined =>
                chatState[p].socket # 0 /\ chatState[p].socket \in Joined

-----------------------------------------------------------------------------
(* The remote functions loadTest and queryTest: each invocation has its own  *)
(* attemptCount and runs randomTask, once more after a failure               *)
(* (Schedule.recurs(1)); an error still there is turned into a result by     *)
(* catchTags, and Effect.runPromise settles the query with what is left.     *)
(* Math.random() is an input, in hundredths.  queryTest sleeps inside each   *)
(* attempt, so its attempts take two steps.  Invocations run concurrently.   *)

RemoteFunctions == {"loadTest", "queryTest"}

\* Math.random(), in hundredths: both sides of either threshold
Randoms == {0, LOAD_FAILURE_BELOW - 1, LOAD_FAILURE_BELOW,
            NETWORK_ERROR_BELOW - 1, NETWORK_ERROR_BELOW, 99}

\* the state of an invocation that has just begun
NewCall(fn) ==
    [fn |-> fn, attemptCount |-> 0, recurred |-> 0, phase |-> "ready",
     exits |-> <<>>, settled |-> <<>>]

\* randomTask after attemptCount++: what the attempt ends with
randomTask(attemptCount, random) ==
    IF random < LOAD_FAILURE_BELOW
    THEN [tag |-> "LoadFailure", attempt |-> attemptCount, value |-> <<>>]
    ELSE IF random < NETWORK_ERROR_BELOW
    THEN [tag |-> "NetworkError", attempt |-> attemptCount, value |-> <<>>]
    ELSE [tag |-> "Success", attempt |-> attemptCount,
          value |-> <<[attempts |-> attemptCount, status |-> "success", error |-> "",
                       message |-> IF attemptCount = 1
                                   THEN <<"Success on first try!">>
                                   ELSE <<"Success after ", attemptCount, " attempts!">>]>>]

\* faulty variant: the schedule allows one recurrence more
retry_OnceMore(recurred, exit) == exit.tag # "Success" /\ recurred < RECURS + 1

\* Effect.retry(Schedule.recurs(1)): whether the task is run again
retry(recurred, exit) == exit.tag # "Success" /\ recurred < RECURS

\* Effect.catchTags({ LoadFailure, NetworkError }) followed by
\* Effect.runPromise: the promise fulfils with a result or rejects
catchTags(exit) ==
    IF exit.tag = "Success"
    THEN [promise |-> "fulfilled", result |-> exit.value[1]]
    ELSE IF exit.tag \in {"LoadFailure", "NetworkError"}
    THEN [promise |-> "fulfilled",
          result |-> [attempts |-> exit.attempt, status |-> "failed", error |-> exit.tag,
                      message |-> <<"Load failed after ", exit.attempt, " attempts">>]]
    ELSE [promise |-> "rejected", result |-> [attempts |-> 0, status |-> "", error |-> exit.tag,
                                             message |-> <<>>]]

\* the invocation after an attempt of it ended with exit
Attempted(call, exit) ==
    LET seen == [call EXCEPT !.exits = Append(@, exit.tag)] IN
    IF retry(call.recurred, exit)
    THEN [seen EXCEPT !.recurred = @ + 1, !.phase = "ready"]
    ELSE [seen EXCEPT !.phase = "done", !.settled = <<catchTags(exit)>>]

RemoteUnchanged ==
    UNCHANGED <<sessions, messageHistory, attachment, status, nextId, clock,
                delivered, inbox, peer, room, rate, chatState, inflight, ev>>

\* a client invokes a remote function
RemoteInvoke ==
    /\ Len(calls) < RemoteMaxCalls
    /\ \E fn \in RemoteFunctions : calls' = Append(calls, NewCall(fn))
    /\ RemoteUnchanged

\* an attempt of loadTest: attemptCount++, Math.random(), the outcome
LoadAttempt ==
    /\ \E i \in 1..Len(calls), random \in Randoms :
        /\ calls[i].fn = "loadTest"
        /\ calls[i].phase = "ready"
        /\ LET counted == [calls[i] EXCEPT !.attemptCount = @ + 1] IN
           calls' = [calls EXCEPT ![i] =
                        Attempted(counted, randomTask(counted.attemptCount, random))]
    /\ RemoteUnchanged

\* an attempt of queryTest begins: attemptCount++, then Effect.sleep(750)
QueryAttemptBegins ==
    /\ \E i \in 1..Len(calls) :
        /\ calls[i].fn = "queryTest"
        /\ calls[i].phase = "ready"
        /\ calls' = [calls EXCEPT ![i].attemptCount = @ + 1, ![i].phase = "sleeping"]
    /\ RemoteUnchanged

\* the sleep of an attempt of queryTest is over: Math.random(), the outcome
QueryAttemptEnds ==
    /\ \E i \in 1..Len(calls), random \in Randoms :
        /\ calls[i].fn = "queryTest"
        /\ calls[i].phase = "sleeping"
        /\ calls' = [calls EXCEPT ![i] =
                        Attempted(calls[i], randomTask(calls[i].attemptCount, random))]
    /\ RemoteUnchanged

RemoteRuns ==
    \/ LoadAttempt
    \/ QueryAttemptBegins
    \/ QueryAttemptEnds

RemoteNext ==
    \/ RemoteInvoke
    \/ LoadAttempt
    \/ QueryAttemptBegins
    \/ QueryAttemptEnds

\* the runtime goes on running an invocation that can take a step
SpecRemote == Init /\ [][RemoteNext]_vars /\ WF_vars(RemoteRuns)

\* what holds of an invocation at every moment
RemoteResultOk(call) ==
    /\ call.attemptCount <= RECURS + 1
    /\ Len(call.exits) <= call.attemptCount
    /\ call.phase = "done" =>
        LET r == call.settled[1].result IN
        /\ Len(call.settled) = 1
        /\ call.settled[1].promise = "fulfilled"
        /\ Len(call.exits) = call.attemptCount
        /\ r.status \in {"success", "failed"}
        /\ r.status = "success" =>
            /\ Last(call.exits) = "Success"
            /\ r.attempts = Len(call.exits)
            /\ r.error = ""
        /\ r.status = "failed" =>
            /\ Len(call.exits) = 2
            /\ \A k \in 1..2 : call.exits[k] \in {"LoadFailure", "NetworkError"}
            /\ r.attempts = 2
            /\ r.error = call.exits[2]
        /\ (\A k \in 1..Len(call.exits) : call.exits[k] # "Success") => r.status = "failed"

\* C37: loadTest and queryTest always end with a result and never reject.
\* The random task is attempted at most twice; the result has status
\* 'success' with attempts the number of the attempt that succeeded, and
\* status 'failed' only when both attempts failed, then with attempts = 2 and
\* the tag of the last error; and every invocation is settled eventually.
C37_RemoteTerminates ==
    /\ [](\A i \in 1..Len(calls) : RemoteResultOk(calls[i]))
    /\ \A i \in 1..RemoteMaxCalls :
        (Len(calls) >= i) ~> (Len(calls) >= i /\ calls[i].phase = "done")

C37_Witness ==
    /\ Len(calls) = 2
    /\ calls[1].fn = "loadTest"
    /\ calls[1].phase = "done"
    /\ calls[1].exits = <<"LoadFailure", "NetworkError">>
    /\ calls[1].settled[1].result.status = "failed"
    /\ calls[1].settled[1].result.attempts = 2
    /\ calls[1].settled[1].result.error = "NetworkError"
    /\ calls[2].fn = "queryTest"
    /\ calls[2].phase = "done"
    /\ calls[2].exits = <<"NetworkError", "Success">>
    /\ calls[2].settled[1].result.status = "success"
    /\ calls[2].settled[1].result.attempts = 2
====
